---- MODULE Spec2Model ----
(***************************************************************************)
(* Closing-package backend: the approval state machine over a document     *)
(* (services/documents.py), closing-package generation                     *)
(* (services/packages.py) with the money of a GroupPlan, workspace         *)
(* memberships and invites (services/workspaces.py), sharing a document    *)
(* with the parent workspace and the HTML-to-docx renderer                 *)
(* (services/documents.py), each request running in one session_scope      *)
(* transaction (database.py).                                              *)
(***************************************************************************)
EXTENDS Integers, Sequences, FiniteSets, TLC

VARIABLES
    doc,               \* the stored approval record of the document under approval
    legacy_performer,  \* directory data the assignee hydration reads
    response,          \* outcome of the last document request
    tech_assignments,  \* rows of tech_assignments
    closing_packages,  \* rows of closing_packages
    documents_v2,      \* rows of documents_v2
    package_response,  \* the last createPackage request and what it returned
    individuals_v2,    \* rows of individuals_v2
    contracts_v2,      \* rows of contracts_v2
    timesheets,        \* rows of timesheets
    task_records,      \* the tracker's tasks (TaskORM), by id
    files,             \* the files in DOCUMENTS_DIR
    sessions,          \* the transactions that have read and not yet committed
    workspace_members, \* rows of workspace_members
    workspace_invites, \* rows of workspace_invites
    utcnow,            \* the clock the invites' expiry is taken from
    workspace_response, \* the last workspace call and what it returned or raised
    document_share,    \* workspace and sharing columns of the legacy document record
    share_response,    \* the last share or revoke call and what it returned or raised
    group_plan,        \* one GroupPlan of a PackageBuilder, amounts in kopeks
    renderer,          \* the fields of one DocxHtmlRenderer
    feed               \* the elements HTMLParser has open, and the tags fed so far

vars == <<doc, legacy_performer, response, tech_assignments, closing_packages, documents_v2, package_response,
          individuals_v2, contracts_v2, timesheets, task_records, files, sessions,
          workspace_members, workspace_invites, utcnow, workspace_response,
          document_share, share_response, group_plan, renderer, feed>>

approvalVars == <<doc, legacy_performer, response>>

packageVars == <<tech_assignments, closing_packages, documents_v2, package_response,
                 individuals_v2, contracts_v2, timesheets, task_records, files>>

sessionVars == <<sessions>>

workspaceVars == <<workspace_members, workspace_invites, utcnow, workspace_response>>

sharingVars == <<document_share, share_response>>

moneyVars == <<group_plan>>

rendererVars == <<renderer, feed>>

None == "None"

\* a stored timestamp (datetime.utcnow() at the time of the write)
Stamp == "utcnow"

\* None of an integer field; ids, versions and stored hours start at 1
Null == 0

\* None of a pair_id, which otherwise holds a uuid
NoPair == <<>>

NoPayload ==
    [ta_id |-> Null, period_start |-> Null, period_end |-> Null, tasks |-> <<>>,
     include_by_projects |-> "off", autopick_contract |-> TRUE,
     allow_selfemployed_without_receipt |-> FALSE, include_timesheets |-> FALSE]

\* no request is in progress next to the one being served
NoSessions == <<>>

\* before the first workspace call
NoWorkspaceResponse ==
    [op |-> None, error |-> None, invite |-> Null, reused |-> FALSE]

\* before the first POST /packages
NoShare(workspace_id) ==
    [workspace_id |-> workspace_id, shared_with_parent |-> FALSE, shared_parent_id |-> None,
     shared_at |-> None, shared_by_user_id |-> None]

NoShareResponse ==
    [op |-> None, error |-> None, workspace_id |-> None]

\* GroupPlan as _plan_for_task leaves it: no task yet, every amount zero
GroupPlan ==
    [tasks |-> <<>>, hours |-> 0, performer_type |-> "gph", vat_mode |-> "no_vat",
     rate_hour |-> 0, amount_wo_vat |-> 0, vat_amount |-> 0, amount_total |-> 0,
     finalized |-> FALSE]

BaseRunAttrs == [bold |-> FALSE, italic |-> FALSE, underline |-> FALSE]

\* DocxHtmlRenderer.__init__
DocxHtmlRenderer ==
    [run_attrs_stack |-> <<BaseRunAttrs>>,
     list_stack |-> <<>>,
     table_stack |-> <<>>,
     capture_stack |-> <<>>,
     section_stack |-> <<>>,
     list_item_stack |-> <<>>,
     _paragraph_reuse_stack |-> <<>>,
     _paragraph_style_depth |-> 0,
     current_paragraph |-> Null,
     paragraphs |-> 0]

NoFeed == [open |-> <<>>, fed |-> 0]

NoPackageResponse ==
    [payload |-> NoPayload, error |-> None, package_id |-> Null, documents |-> <<>>,
     warnings |-> <<>>]

(***************************************************************************)
(* Bounds                                                                  *)
(***************************************************************************)
MaxTimeline == 2

\* createPackage is not called once documents_v2 holds this many rows
MaxDocuments == 2

(***************************************************************************)
(* Users and roles                                                         *)
(***************************************************************************)
Users == {"adm", "acc", "mgr", "prf"}

\* an id that session.get(UserORM, id) does not find
UnknownUser == "ghost"

UserRole(u) ==
    CASE u = "adm" -> "admin"
      [] u = "acc" -> "accountant"
      [] u = "mgr" -> "manager"
      [] OTHER -> "performer"

\* every role the account holds, the primary one included
UserRoles(u) == {UserRole(u)}

\* current_user.email, written as author of a timeline entry and into the *_by
\* fields.  No guard reads it; the model does not tell the accounts' e-mails apart.
UserEmail(u) == "email"

_collect_user_roles(primary, extra) == {primary} \cup extra

Statuses ==
    {"draft", "pending_performer", "pending_manager", "manager_approved",
     "rejected_performer", "rejected_manager", "final"}

DocumentApprovalAction ==
    {"submit", "performer_approve", "performer_reject",
     "manager_approve", "manager_reject", "finalize"}

Notes == {None, " ", "ok"}

strip(text) == IF text = " " THEN "" ELSE text

HasMessage(message) == message # None /\ strip(message) # ""

_normalize_v2_status(value) ==
    CASE value = None -> "draft"
      [] value \in Statuses -> value
      [] value = "performer_approved" -> "pending_manager"
      [] value = "performer_rejected" -> "rejected_performer"
      [] value = "manager_rejected" -> "rejected_manager"
      [] value \in {"finalized", "completed"} -> "final"
      [] OTHER -> "draft"

(***************************************************************************)
(* Outcome of a handler: the exception it raised (None when it returned)   *)
(* and the session's working copy of the record at that point.             *)
(***************************************************************************)
Raise(d, e) == [error |-> e, doc |-> d]

Return(d) == [error |-> None, doc |-> d]

\* a session that commits whatever the handler did, raised or not
session_scope_commit_on_error(stored, result) == result.doc

\* commit on normal exit, rollback on any exception
session_scope(stored, result) ==
    IF result.error = None THEN result.doc ELSE stored

\* a history that records a transition only when it carries a message
append_history_if_message(d, status, user_role, user_identifier, message) ==
    IF HasMessage(message)
    THEN [d EXCEPT !.timeline = Append(@,
            [status |-> status, timestamp |-> Stamp, author |-> user_identifier,
             role |-> user_role, message |-> strip(message)])]
    ELSE d

\* V2: one timeline entry per transition, the message only when non-blank
append_history(d, status, user_role, user_identifier, message) ==
    [d EXCEPT !.timeline = Append(@,
        [status |-> status, timestamp |-> Stamp, author |-> user_identifier,
         role |-> user_role,
         message |-> IF HasMessage(message) THEN strip(message) ELSE None])]

\* legacy: a note is stored only when the message is non-blank
append_note(d, status, user_role, user_identifier, message) ==
    IF HasMessage(message)
    THEN [d EXCEPT !.timeline = Append(@,
            [status |-> status, timestamp |-> Stamp, author |-> user_identifier,
             role |-> user_role, message |-> strip(message)])]
    ELSE d

\* fills assignees missing in the V2 approval meta from the legacy performer
_map_closing_document(d) ==
    [d EXCEPT
        !.performer_assignee =
            IF @ = None THEN legacy_performer.user ELSE @,
        !.manager_assignee =
            IF @ = None THEN legacy_performer.default_manager_user ELSE @]

\* legacy record: the same hydration, run before the transition
_hydrate_document_assignees(d) ==
    [d EXCEPT
        !.performer_assignee =
            IF @ = None THEN legacy_performer.user ELSE @,
        !.manager_assignee =
            IF @ = None THEN legacy_performer.default_manager_user ELSE @]

(***************************************************************************)
(* Approval transition of a generated (V2) document                        *)
(***************************************************************************)
is_admin_role(effective_roles) == effective_roles \cap {"admin", "accountant"} # {}

\* a submit that always sends the document to the performer
target_status_always_performer(current_status) == "pending_performer"

\* where submit sends the document: back to the manager after a manager reject
target_status(current_status) ==
    IF current_status = "rejected_manager" THEN "pending_manager" ELSE "pending_performer"

_transition_document_v2_approval(d, action, user_role, user_roles, user_identifier, user_id, note) ==
    LET current_status == _normalize_v2_status(d.status)
        effective_roles == _collect_user_roles(user_role, user_roles)
        is_admin == is_admin_role(effective_roles)
        performer_assignee_id == d.performer_assignee
        manager_assignee_id == d.manager_assignee
    IN
    CASE action = "submit" ->
        IF current_status \notin {"draft", "rejected_performer", "rejected_manager"} /\ ~is_admin
        THEN Raise(d, "already_submitted")
        ELSE IF effective_roles \cap {"admin", "accountant", "manager"} = {}
        THEN Raise(d, "submit_forbidden")
        ELSE
            LET d1 == [d EXCEPT !.submitted_at = Stamp,
                                !.finalized_at = None,
                                !.finalized_by = None]
            IN
            IF target_status(current_status) = "pending_manager"
            THEN
                IF manager_assignee_id = None
                THEN Raise(d1, "manager_missing")
                ELSE Return(_map_closing_document(append_history(
                        [d1 EXCEPT !.status = "pending_manager",
                                   !.manager_approved_at = None,
                                   !.manager_approved_by = None],
                        "pending_manager", user_role, user_identifier, note)))
            ELSE
                IF performer_assignee_id = None
                THEN Raise(d1, "performer_missing")
                ELSE Return(_map_closing_document(append_history(
                        [d1 EXCEPT !.status = "pending_performer",
                                   !.performer_approved_at = None,
                                   !.performer_approved_by = None,
                                   !.manager_approved_at = None,
                                   !.manager_approved_by = None],
                        "pending_performer", user_role, user_identifier, note)))
      [] action = "performer_approve" ->
        IF current_status # "pending_performer" /\ ~is_admin
        THEN Raise(d, "not_pending_performer")
        ELSE IF ~is_admin /\ (performer_assignee_id = None \/ performer_assignee_id # user_id)
        THEN Raise(d, "other_performer")
        ELSE Return(_map_closing_document(append_history(
                [d EXCEPT !.status = "pending_manager",
                          !.performer_approved_at = Stamp,
                          !.performer_approved_by = user_identifier],
                "pending_manager", user_role, user_identifier, note)))
      [] action = "performer_reject" ->
        IF current_status # "pending_performer" /\ ~is_admin
        THEN Raise(d, "not_pending_performer")
        ELSE IF ~is_admin /\ (performer_assignee_id = None \/ performer_assignee_id # user_id)
        THEN Raise(d, "other_performer")
        ELSE IF ~HasMessage(note)
        THEN Raise(d, "comment_required")
        ELSE Return(_map_closing_document(append_history(
                [d EXCEPT !.status = "rejected_performer",
                          !.performer_approved_at = None,
                          !.performer_approved_by = None,
                          !.manager_approved_at = None,
                          !.manager_approved_by = None],
                "rejected_performer", user_role, user_identifier, note)))
      [] action = "manager_approve" ->
        IF current_status # "pending_manager" /\ ~is_admin
        THEN Raise(d, "not_pending_manager")
        ELSE IF manager_assignee_id # None /\ ~is_admin /\ manager_assignee_id # user_id
        THEN Raise(d, "other_manager")
        ELSE IF manager_assignee_id = None /\ ~is_admin
        THEN Raise(d, "manager_missing")
        ELSE Return(_map_closing_document(append_history(
                [d EXCEPT !.status = "manager_approved",
                          !.manager_approved_at = Stamp,
                          !.manager_approved_by = user_identifier],
                "manager_approved", user_role, user_identifier, note)))
      [] action = "manager_reject" ->
        IF current_status # "pending_manager" /\ ~is_admin
        THEN Raise(d, "not_pending_manager")
        ELSE IF manager_assignee_id # None /\ ~is_admin /\ manager_assignee_id # user_id
        THEN Raise(d, "other_manager")
        ELSE IF manager_assignee_id = None /\ ~is_admin
        THEN Raise(d, "manager_missing")
        ELSE IF ~HasMessage(note)
        THEN Raise(d, "comment_required")
        ELSE Return(_map_closing_document(append_history(
                [d EXCEPT !.status = "rejected_manager",
                          !.manager_approved_at = None,
                          !.manager_approved_by = None,
                          !.finalized_at = None,
                          !.finalized_by = None],
                "rejected_manager", user_role, user_identifier, note)))
      [] action = "finalize" ->
        IF current_status # "manager_approved" /\ ~is_admin
        THEN Raise(d, "not_manager_approved")
        ELSE IF effective_roles \cap {"admin", "accountant", "manager"} = {}
        THEN Raise(d, "finalize_forbidden")
        ELSE Return(_map_closing_document(append_history(
                [d EXCEPT !.status = "final",
                          !.finalized_at = Stamp,
                          !.finalized_by = user_identifier],
                "final", user_role, user_identifier, note)))
      [] OTHER -> Raise(d, "unknown_action")

(***************************************************************************)
(* Approval transition: a legacy document record when one has the id,      *)
(* the generated (V2) document otherwise                                   *)
(***************************************************************************)
\* an assignee check that only asks for an assignee to exist
ensure_assignee_any_caller(expected_id, effective_roles, user_id) ==
    IF expected_id = None THEN "assignee_missing" ELSE None

\* the error ensure_assignee raises, None when it returns
ensure_assignee(expected_id, effective_roles, user_id) ==
    IF expected_id = None THEN "assignee_missing"
    ELSE IF effective_roles \cap {"admin", "accountant"} # {} THEN None
    ELSE IF user_id # expected_id THEN "other_user"
    ELSE None

transition_document_approval(stored, action, user_role, user_roles, user_identifier, user_id, note) ==
    IF stored.kind = "v2"
    THEN _transition_document_v2_approval(stored, action, user_role, user_roles, user_identifier,
                                          user_id, note)
    ELSE
    LET d == _hydrate_document_assignees(stored)
        current_status == IF d.status = None THEN "draft" ELSE d.status
        effective_roles == _collect_user_roles(user_role, user_roles)
        is_admin == is_admin_role(effective_roles)
        performer_assignee_id == d.performer_assignee
        manager_assignee_id == d.manager_assignee
        performer_check == ensure_assignee(performer_assignee_id, effective_roles, user_id)
        manager_check == ensure_assignee(manager_assignee_id, effective_roles, user_id)
    IN
    CASE action = "submit" ->
        IF current_status \notin {"draft", "rejected_performer", "rejected_manager"} /\ ~is_admin
        THEN Raise(d, "already_submitted")
        ELSE IF effective_roles \cap {"admin", "accountant", "manager"} = {}
        THEN Raise(d, "submit_forbidden")
        ELSE
            LET d1 == [d EXCEPT !.submitted_at = Stamp,
                                !.finalized_at = None,
                                !.finalized_by = None]
            IN
            IF target_status(current_status) = "pending_manager"
            THEN
                IF manager_assignee_id = None
                THEN Raise(d1, "manager_missing")
                ELSE Return(append_note(
                        [d1 EXCEPT !.status = "pending_manager",
                                   !.manager_approved_at = None,
                                   !.manager_approved_by = None],
                        "pending_manager", user_role, user_identifier, note))
            ELSE
                IF performer_assignee_id = None
                THEN Raise(d1, "performer_missing")
                ELSE Return(append_note(
                        [d1 EXCEPT !.status = "pending_performer",
                                   !.performer_approved_at = None,
                                   !.performer_approved_by = None,
                                   !.manager_approved_at = None,
                                   !.manager_approved_by = None],
                        "pending_performer", user_role, user_identifier, note))
      [] action = "performer_approve" ->
        IF current_status # "pending_performer" /\ ~is_admin
        THEN Raise(d, "not_pending_performer")
        ELSE IF performer_check # None
        THEN Raise(d, performer_check)
        ELSE Return(append_note(
                [d EXCEPT !.status = "pending_manager",
                          !.performer_approved_at = Stamp,
                          !.performer_approved_by = user_identifier],
                "pending_manager", user_role, user_identifier, note))
      [] action = "performer_reject" ->
        IF current_status # "pending_performer" /\ ~is_admin
        THEN Raise(d, "not_pending_performer")
        ELSE IF performer_check # None
        THEN Raise(d, performer_check)
        ELSE IF ~HasMessage(note)
        THEN Raise(d, "comment_required")
        ELSE Return(append_note(
                [d EXCEPT !.status = "rejected_performer",
                          !.performer_approved_at = None,
                          !.performer_approved_by = None,
                          !.manager_approved_at = None,
                          !.manager_approved_by = None],
                "rejected_performer", user_role, user_identifier, note))
      [] action = "manager_approve" ->
        IF current_status # "pending_manager" /\ ~is_admin
        THEN Raise(d, "not_pending_manager")
        ELSE IF manager_assignee_id # None /\ manager_check # None
        THEN Raise(d, manager_check)
        ELSE IF manager_assignee_id = None /\ effective_roles \cap {"admin", "accountant"} = {}
        THEN Raise(d, "manager_missing")
        ELSE Return(append_note(
                [d EXCEPT !.status = "manager_approved",
                          !.manager_approved_at = Stamp,
                          !.manager_approved_by = user_identifier],
                "manager_approved", user_role, user_identifier, note))
      [] action = "manager_reject" ->
        IF current_status # "pending_manager" /\ ~is_admin
        THEN Raise(d, "not_pending_manager")
        ELSE IF manager_assignee_id # None /\ manager_check # None
        THEN Raise(d, manager_check)
        ELSE IF manager_assignee_id = None /\ effective_roles \cap {"admin", "accountant"} = {}
        THEN Raise(d, "manager_missing")
        ELSE IF ~HasMessage(note)
        THEN Raise(d, "comment_required")
        ELSE Return(append_note(
                [d EXCEPT !.status = "rejected_manager",
                          !.manager_approved_at = None,
                          !.manager_approved_by = None,
                          !.finalized_at = None,
                          !.finalized_by = None],
                "rejected_manager", user_role, user_identifier, note))
      [] action = "finalize" ->
        IF current_status # "manager_approved" /\ ~is_admin
        THEN Raise(d, "not_manager_approved")
        ELSE IF effective_roles \cap {"admin", "accountant", "manager"} = {}
        THEN Raise(d, "finalize_forbidden")
        ELSE Return(append_note(
                [d EXCEPT !.status = "final",
                          !.finalized_at = Stamp,
                          !.finalized_by = user_identifier],
                "final", user_role, user_identifier, note))
      [] OTHER -> Raise(d, "unknown_action")

(***************************************************************************)
(* Reassigning the performer and manager assignees                         *)
(***************************************************************************)
PerformerEditable == {"draft", "pending_performer", "rejected_performer"}

ManagerLocked == {"manager_approved", "final"}

_update_document_v2_assignees(d, performer_id, manager_id) ==
    LET current_status == _normalize_v2_status(d.status) IN
    IF UnknownUser \in {performer_id, manager_id}
    THEN Raise(d, "user_not_found")
    ELSE IF performer_id # None /\ current_status \notin PerformerEditable
    THEN Raise(d, "performer_locked")
    ELSE IF performer_id = None /\ d.performer_assignee # None
            /\ current_status \notin PerformerEditable
    THEN Raise(d, "performer_locked")
    ELSE IF manager_id # None /\ current_status \in ManagerLocked
    THEN Raise(d, "manager_locked")
    ELSE IF manager_id = None /\ d.manager_assignee # None
            /\ current_status \in ManagerLocked
    THEN Raise(d, "manager_locked")
    ELSE
        LET d1 == [d EXCEPT !.performer_assignee = performer_id,
                            !.manager_assignee = manager_id]
            d2 == IF performer_id = None
                     /\ current_status \in {"pending_performer", "rejected_performer"}
                  THEN [d1 EXCEPT !.status = "draft", !.submitted_at = None]
                  ELSE d1
            d3 == IF manager_id = None /\ current_status = "pending_manager"
                  THEN [d2 EXCEPT !.status = "pending_performer",
                                  !.manager_approved_at = None,
                                  !.manager_approved_by = None]
                  ELSE d2
        IN Return(_map_closing_document(d3))

update_document_assignees(d, performer_id, manager_id) ==
    IF d.kind = "v2"
    THEN _update_document_v2_assignees(d, performer_id, manager_id)
    ELSE
    LET current_status == IF d.status = None THEN "draft" ELSE d.status IN
    IF UnknownUser \in {performer_id, manager_id}
    THEN Raise(d, "user_not_found")
    ELSE IF performer_id # None /\ current_status \notin PerformerEditable
    THEN Raise(d, "performer_locked")
    ELSE IF performer_id = None /\ d.performer_assignee # None
            /\ current_status \notin PerformerEditable
    THEN Raise(d, "performer_locked")
    ELSE IF manager_id # None /\ current_status \in ManagerLocked
    THEN Raise(d, "manager_locked")
    ELSE IF manager_id = None /\ d.manager_assignee # None
            /\ current_status \in ManagerLocked
    THEN Raise(d, "manager_locked")
    ELSE
        LET d1 == [d EXCEPT !.performer_assignee = performer_id,
                            !.manager_assignee = manager_id]
            d2 == IF performer_id = None
                     /\ current_status \in {"pending_performer", "rejected_performer"}
                  THEN [d1 EXCEPT !.status = "draft", !.submitted_at = None]
                  ELSE d1
            d3 == IF manager_id = None /\ current_status = "pending_manager"
                  THEN [d2 EXCEPT !.status = "pending_performer",
                                  !.manager_approved_at = None,
                                  !.manager_approved_by = None]
                  ELSE d2
        IN Return(d3)

(***************************************************************************)
(* Adding a note.  On a V2 document the handler assigns the mutated meta   *)
(* dict back without flag_modified, so whether the ORM writes the new      *)
(* entry is not decided by the handler: `written` is either outcome.       *)
(***************************************************************************)
add_document_note(d, user_role, user_identifier, message, written) ==
    IF strip(message) = ""
    THEN Raise(d, "empty_comment")
    ELSE IF d.kind = "legacy"
    THEN Return([d EXCEPT !.timeline = Append(@,
            [status |-> IF d.status = None THEN "draft" ELSE d.status,
             timestamp |-> Stamp, author |-> user_identifier, role |-> user_role,
             message |-> strip(message)])])
    ELSE
        LET current_status == _normalize_v2_status(d.status)
            d1 == [d EXCEPT !.status = current_status,
                            !.timeline = Append(@,
                                [status |-> current_status, timestamp |-> Stamp,
                                 author |-> user_identifier, role |-> user_role,
                                 message |-> strip(message)])]
        IN Return(_map_closing_document(IF written THEN d1 ELSE d))

(***************************************************************************)
(* Requests on the document, one transaction each                          *)
(***************************************************************************)
\* the ids the assignee update is called with
PerformerIds == {None, "prf", "mgr", UnknownUser}

ManagerIds == {None, "mgr"}

NoResponse ==
    [op |-> None, error |-> None]

NewDocument(kind) ==
    [kind |-> kind, status |-> "draft",
     performer_assignee |-> None, manager_assignee |-> None,
     submitted_at |-> None,
     performer_approved_at |-> None, performer_approved_by |-> None,
     manager_approved_at |-> None, manager_approved_by |-> None,
     finalized_at |-> None, finalized_by |-> None,
     timeline |-> <<>>]

api_transition_document(user, action, note) ==
    /\ Len(doc.timeline) < MaxTimeline
    /\ LET result == transition_document_approval(doc, action, UserRole(user), UserRoles(user),
                                                  UserEmail(user), user, note) IN
        /\ doc' = session_scope(doc, result)
        /\ response' = [op |-> "transition", error |-> result.error]
    /\ UNCHANGED <<legacy_performer, packageVars, sessionVars, workspaceVars, sharingVars, moneyVars, rendererVars>>

api_update_document_assignees(performer_id, manager_id) ==
    /\ LET result == update_document_assignees(doc, performer_id, manager_id) IN
        /\ doc' = session_scope(doc, result)
        /\ response' = [op |-> "assignees", error |-> result.error]
    /\ UNCHANGED <<legacy_performer, packageVars, sessionVars, workspaceVars, sharingVars, moneyVars, rendererVars>>

api_document_add_note(user, message) ==
    /\ Len(doc.timeline) < MaxTimeline
    /\ \E written \in BOOLEAN :
        LET result == add_document_note(doc, UserRole(user), UserEmail(user), message, written) IN
        /\ doc' = session_scope(doc, result)
        /\ response' = [op |-> "note", error |-> result.error]
    /\ UNCHANGED <<legacy_performer, packageVars, sessionVars, workspaceVars, sharingVars, moneyVars, rendererVars>>

InitApproval ==
    /\ doc \in {NewDocument(kind) : kind \in {"legacy", "v2"}}
    /\ legacy_performer \in
        {[user |-> None, default_manager_user |-> None],
         [user |-> "prf", default_manager_user |-> "mgr"]}
    /\ response = NoResponse
    /\ tech_assignments = <<>>
    /\ closing_packages = <<>>
    /\ documents_v2 = <<>>
    /\ individuals_v2 = <<>>
    /\ contracts_v2 = <<>>
    /\ timesheets = <<>>
    /\ task_records = <<>>
    /\ files = {}
    /\ package_response = NoPackageResponse
    /\ sessions = NoSessions
    /\ workspace_members = {}
    /\ workspace_invites = <<>>
    /\ utcnow = 0
    /\ workspace_response = NoWorkspaceResponse
    /\ document_share = NoShare("ws-child")
    /\ share_response = NoShareResponse
    /\ group_plan = GroupPlan
    /\ renderer = DocxHtmlRenderer
    /\ feed = NoFeed

NextApproval ==
    \/ \E user \in Users, action \in DocumentApprovalAction, note \in Notes :
        api_transition_document(user, action, note)
    \/ \E performer_id \in PerformerIds, manager_id \in ManagerIds :
        api_update_document_assignees(performer_id, manager_id)
    \/ \E user \in Users, message \in {" ", "ok"} :
        api_document_add_note(user, message)

SpecApproval == InitApproval /\ [][NextApproval]_vars

(***************************************************************************)
(* Two transition requests on the same document at the same time.  Each    *)
(* request is its own session: session.get reads the row without a lock    *)
(* (no with_for_update, no version column), the handler computes on what   *)
(* it read, and flush + commit write the result by primary key.            *)
(***************************************************************************)
Sessions == {1, 2}

\* the callers and notes of the concurrent requests
ConcurrentUsers == {"mgr", "prf"}

ConcurrentNotes == {"ok"}

IdleSession ==
    [open |-> FALSE, user |-> None, action |-> None, note |-> None,
     read |-> NewDocument("v2")]

\* the UPDATE of a flush: the whole meta JSON of a V2 row, the changed columns of a
\* legacy row, in both cases by primary key and whatever the row holds by then
flush_document(stored, read, written) ==
    IF stored.kind = "v2" THEN written
    ELSE [f \in DOMAIN stored |-> IF written[f] # read[f] THEN written[f] ELSE stored[f]]

\* the request opens its session and loads the row (session.get)
begin_transition(s, user, action, note) ==
    /\ ~sessions[s].open
    /\ Len(doc.timeline) < MaxTimeline
    /\ sessions' = [sessions EXCEPT ![s] =
            [open |-> TRUE, user |-> user, action |-> action, note |-> note, read |-> doc]]
    /\ UNCHANGED <<approvalVars, packageVars, workspaceVars, sharingVars, moneyVars, rendererVars>>

\* the handler runs on the row as loaded; session_scope commits or rolls back
commit_transition(s) ==
    /\ sessions[s].open
    /\ LET request == sessions[s]
           result == transition_document_approval(request.read, request.action,
                        UserRole(request.user), UserRoles(request.user),
                        UserEmail(request.user), request.user, request.note) IN
        /\ doc' = IF result.error = None
                  THEN flush_document(doc, request.read, result.doc)
                  ELSE doc
        /\ response' = [op |-> "transition", error |-> result.error]
    /\ sessions' = [sessions EXCEPT ![s] = IdleSession]
    /\ UNCHANGED <<legacy_performer, packageVars, workspaceVars, sharingVars, moneyVars, rendererVars>>

InitConcurrentApproval ==
    /\ doc \in {[NewDocument(kind) EXCEPT !.performer_assignee = "prf",
                                          !.manager_assignee = "mgr"] :
                    kind \in {"legacy", "v2"}}
    /\ legacy_performer = [user |-> None, default_manager_user |-> None]
    /\ response = [op |-> "assignees", error |-> None]
    /\ tech_assignments = <<>>
    /\ closing_packages = <<>>
    /\ documents_v2 = <<>>
    /\ individuals_v2 = <<>>
    /\ contracts_v2 = <<>>
    /\ timesheets = <<>>
    /\ task_records = <<>>
    /\ files = {}
    /\ package_response = NoPackageResponse
    /\ sessions = [s \in Sessions |-> IdleSession]
    /\ workspace_members = {}
    /\ workspace_invites = <<>>
    /\ utcnow = 0
    /\ workspace_response = NoWorkspaceResponse
    /\ document_share = NoShare("ws-child")
    /\ share_response = NoShareResponse
    /\ group_plan = GroupPlan
    /\ renderer = DocxHtmlRenderer
    /\ feed = NoFeed

NextConcurrentApproval ==
    \/ \E s \in Sessions, user \in ConcurrentUsers, action \in DocumentApprovalAction,
          note \in ConcurrentNotes :
        begin_transition(s, user, action, note)
    \/ \E s \in Sessions : commit_transition(s)

SpecConcurrentApproval == InitConcurrentApproval /\ [][NextConcurrentApproval]_vars

(***************************************************************************)
(* Closing packages: directory data the builder reads                      *)
(***************************************************************************)
\* the performers of the directory; a row's id is its place in the table
IndividualsV2 ==
    << [id |-> 1, type |-> "gph", source |-> "manual", email |-> None],
       [id |-> 2, type |-> "employee", source |-> "manual", email |-> None],
       [id |-> 3, type |-> "selfemployed", source |-> "manual", email |-> None] >>

\* dates are day numbers; the contracts of the directory all end by day 4
Today == 2

FiveYears == 5

\* meta is the contract's meta JSON: the receipt flag of a self-employed performer
\* and the legacy contract a migrated contract was made from
ContractMeta(legacy_contract_id) ==
    [npd_receipt_confirmed |-> FALSE, legacy_contract_id |-> legacy_contract_id]

ContractsV2 ==
    << [id |-> 1, performer_id |-> 1, status |-> "active", valid_from |-> 1, valid_to |-> 4,
        vat_mode |-> "no_vat", currency |-> "RUB", act_by_projects |-> FALSE,
        ip_transfer_mode |-> "embedded", party_type |-> "individual",
        meta |-> ContractMeta(None)],
       [id |-> 2, performer_id |-> 2, status |-> "active", valid_from |-> 1, valid_to |-> 3,
        vat_mode |-> "no_vat", currency |-> "RUB", act_by_projects |-> TRUE,
        ip_transfer_mode |-> "separate", party_type |-> "individual",
        meta |-> ContractMeta(None)],
       [id |-> 3, performer_id |-> 3, status |-> "active", valid_from |-> 1, valid_to |-> 4,
        vat_mode |-> "no_vat", currency |-> "RUB", act_by_projects |-> FALSE,
        ip_transfer_mode |-> "embedded", party_type |-> "individual",
        meta |-> ContractMeta(None)] >>

\* the legacy directory: contract L1 of contractor P1, who has an e-mail address
LegacyContracts == {"L1"}

LegacyContractor(legacy_contract_id) == "p1@legacy"

\* a tech assignment created through the directory before any package
ExistingTechAssignment ==
    [id |-> 1, number |-> <<"TA", 1>>, period_start |-> 1, period_end |-> 2, has_ip |-> TRUE]

(***************************************************************************)
(* createPackage requests                                                  *)
(***************************************************************************)
Task(jira_id, hours, assignee_id, contract_id, project_id) ==
    [jira_id |-> jira_id, hours |-> hours, assignee_id |-> assignee_id,
     contract_id |-> contract_id, project_id |-> project_id,
     meta |-> [legacy_contract_id |-> None]]

\* hours are in hundredths, the scale _to_decimal quantizes them to
TaskLists ==
    { <<Task("J1", 200, 1, Null, 10)>>,
      <<Task("J1", 300, 1, Null, 10)>>,
      <<Task("J1", 200, 1, Null, 10), Task("J2", 100, 2, Null, 20)>> }

Periods == {<<1, 2>>, <<3, 4>>}

Payload(ta_id, period, tasks, include_by_projects) ==
    [ta_id |-> ta_id, period_start |-> period[1], period_end |-> period[2],
     tasks |-> tasks, include_by_projects |-> include_by_projects,
     autopick_contract |-> TRUE, allow_selfemployed_without_receipt |-> FALSE,
     include_timesheets |-> FALSE]

\* requests the builder can serve (the second contract ends before period <<3, 4>> does)
ServablePayloads ==
    {Payload(ta_id, period, tasks, mode) :
        ta_id \in {Null, 1}, period \in Periods, tasks \in TaskLists,
        mode \in {"off", "force"}}

\* one request for each way the builder rejects one
RejectedPayloads ==
    { Payload(1, <<3, 2>>, <<Task("J1", 200, 1, Null, 10)>>, "off"),
      Payload(1, <<1, 2>>, <<>>, "off"),
      Payload(9, <<1, 2>>, <<Task("J1", 200, 1, Null, 10)>>, "off"),
      Payload(1, <<1, 2>>, <<Task("J3", 0, 1, Null, 10)>>, "off"),
      Payload(1, <<1, 2>>, <<Task("J4", 100, 1, 1, 10)>>, "off"),
      Payload(1, <<1, 2>>, <<Task("J4", 100, 1, 5, 10)>>, "off"),
      Payload(1, <<1, 2>>, <<Task("J5", 100, 7, Null, 10)>>, "off") }

\* work of the self-employed performer, whose contract has no receipt flag, alone
\* and after a task of the first performer
SelfEmployedPayloads ==
    {[Payload(ta_id, <<1, 2>>, tasks, "off") EXCEPT
            !.allow_selfemployed_without_receipt = allow] :
        ta_id \in {Null, 1},
        tasks \in { <<Task("J6", 100, 3, Null, 10)>>,
                    <<Task("J1", 200, 1, Null, 10), Task("J6", 100, 3, Null, 10)>> },
        allow \in BOOLEAN}

\* a task that names a contract of the legacy directory in its meta
LegacyTask(jira_id, hours, assignee_id, legacy_contract_id) ==
    [Task(jira_id, hours, assignee_id, Null, 10) EXCEPT
        !.meta.legacy_contract_id = legacy_contract_id]

\* periods after the last contract of the directory has ended
LegacyPeriods == {<<5, 6>>, <<7, 8>>, <<8, 9>>}

LegacyPayloads ==
    {Payload(1, period, <<LegacyTask("J7", 100, assignee_id, "L1")>>, "off") :
        period \in LegacyPeriods, assignee_id \in {Null, 1}}
    \cup
    { Payload(1, <<5, 6>>, <<LegacyTask("J7", 100, Null, "L9")>>, "off"),
      Payload(Null, <<5, 6>>, <<LegacyTask("J7", 100, Null, "L1"),
                               Task("J3", 100, 1, Null, 10)>>, "off") }

\* two tasks of one performer under one contract: of the employee, in one project,
\* and of the first performer, in two projects
GroupingPayloads ==
    {Payload(1, <<1, 2>>, tasks, mode) :
        tasks \in { <<Task("J2", 100, 2, Null, 20), Task("J9", 100, 2, Null, 20)>>,
                    <<Task("J1", 200, 1, Null, 10), Task("J10", 100, 1, Null, 20)>> },
        mode \in {"off", "force"}}

TimesheetPayloads ==
    {[Payload(1, <<1, 2>>, tasks, "off") EXCEPT !.include_timesheets = TRUE] :
        tasks \in { <<Task("J1", 200, 1, Null, 10)>>,
                    <<Task("J1", 200, 1, Null, 10), Task("J2", 100, 2, Null, 20)>> }}

Payloads ==
    ServablePayloads \cup RejectedPayloads \cup SelfEmployedPayloads \cup LegacyPayloads
        \cup GroupingPayloads

\* the tasks the tracker holds a record of, none of them in a work package yet
NoWorkPackage == <<>>

TaskRecords ==
    [id \in {"J1", "J2", "J7"} |-> [work_package_id |-> NoWorkPackage]]

_validate_period(payload) ==
    IF payload.period_start > payload.period_end THEN "validation_failed"
    ELSE IF payload.tasks = <<>> THEN "validation_failed"
    ELSE None

ta_number(payload) == <<"AUTO", payload.period_start, payload.period_end>>

\* the largest of the ids, Null when there is none
LastMatching(ids) ==
    IF ids = {} THEN Null ELSE CHOOSE i \in ids : \A j \in ids : j <= i

\* the tech assignment of the request: [error, db, ta]
_load_tech_assignment(db, payload) ==
    IF payload.ta_id # Null
    THEN
        IF payload.ta_id \in 1..Len(db.tech_assignments)
        THEN [error |-> None, db |-> db, ta |-> db.tech_assignments[payload.ta_id]]
        ELSE [error |-> "not_found", db |-> db, ta |-> None]
    ELSE
        LET found == LastMatching({i \in 1..Len(db.tech_assignments) :
                        /\ db.tech_assignments[i].number = ta_number(payload)
                        /\ db.tech_assignments[i].period_start = payload.period_start
                        /\ db.tech_assignments[i].period_end = payload.period_end})
            created == [id |-> Len(db.tech_assignments) + 1, number |-> ta_number(payload),
                        period_start |-> payload.period_start,
                        period_end |-> payload.period_end, has_ip |-> FALSE]
        IN
        IF found # Null
        THEN [error |-> None, db |-> db, ta |-> db.tech_assignments[found]]
        ELSE [error |-> None,
              db |-> [db EXCEPT !.tech_assignments = Append(@, created)],
              ta |-> created]

(***************************************************************************)
(* Task Resolver                                                           *)
(***************************************************************************)
\* a set of ids as the list the query returns (by id)
RECURSIVE SortedSeq(_)
SortedSeq(ids) ==
    IF ids = {} THEN <<>>
    ELSE LET least == CHOOSE i \in ids : \A j \in ids : i <= j
         IN <<least>> \o SortedSeq(ids \ {least})

NoContract == [id |-> Null]

_ensure_contract_valid(contract, payload) ==
    IF contract.valid_to < payload.period_end THEN "contract_expired"
    ELSE IF contract.status # "active" THEN "validation_failed"
    ELSE None

\* the requests of the model carry no assignee name, e-mail or account in meta
_resolve_performer_from_meta(task_input) == Null

\* [db, performer]: the V2 performer with the legacy contractor's e-mail, inserted
\* as a gph performer when there is none
_ensure_individual_v2_from_legacy(db, email) ==
    LET candidates == {i \in 1..Len(db.individuals_v2) : db.individuals_v2[i].email = email}
        performer == [id |-> Len(db.individuals_v2) + 1, type |-> "gph",
                      source |-> "legacy", email |-> email]
    IN
    IF candidates # {}
    THEN [db |-> db, performer |-> CHOOSE i \in candidates : \A j \in candidates : i <= j]
    ELSE [db |-> [db EXCEPT !.individuals_v2 = Append(@, performer)],
          performer |-> performer.id]

\* the contract already migrated from the legacy contract, or a new one:
\* active, valid from today for five years
migrated_contract(db, legacy_contract_id, performer_v2) ==
    LET existing == {c \in 1..Len(db.contracts_v2) :
                        db.contracts_v2[c].meta.legacy_contract_id = legacy_contract_id}
        contract_v2 ==
            [id |-> Len(db.contracts_v2) + 1, performer_id |-> performer_v2,
             status |-> "active", valid_from |-> Today, valid_to |-> Today + FiveYears,
             vat_mode |-> "no_vat", currency |-> "RUB", act_by_projects |-> FALSE,
             ip_transfer_mode |-> "embedded", party_type |-> "individual",
             meta |-> ContractMeta(legacy_contract_id)]
    IN
    IF existing # {}
    THEN [db |-> db, contract |-> db.contracts_v2[CHOOSE c \in existing : TRUE]]
    ELSE [db |-> [db EXCEPT !.contracts_v2 = Append(@, contract_v2)],
          contract |-> contract_v2]

\* [db, contract]: NoContract when the legacy contract does not exist
_ensure_contract_v2_from_legacy(db, legacy_contract_id, performer) ==
    IF legacy_contract_id \notin LegacyContracts
    THEN [db |-> db, contract |-> NoContract]
    ELSE IF performer # Null
    THEN migrated_contract(db, legacy_contract_id, performer)
    ELSE migrated_contract(
            _ensure_individual_v2_from_legacy(db, LegacyContractor(legacy_contract_id)).db,
            legacy_contract_id,
            _ensure_individual_v2_from_legacy(db, LegacyContractor(legacy_contract_id)).performer)

\* the active contracts that overlap the period, of the performer when there is one
contract_query(db, performer, payload) ==
    SortedSeq({c \in 1..Len(db.contracts_v2) :
                /\ db.contracts_v2[c].status = "active"
                /\ db.contracts_v2[c].valid_from <= payload.period_end
                /\ db.contracts_v2[c].valid_to >= payload.period_start
                /\ (performer # Null => db.contracts_v2[c].performer_id = performer)})

\* the query returned nothing: the contract of meta.legacy_contract_id, not validated
resolve_legacy_contract(db, task_input, performer) ==
    IF task_input.meta.legacy_contract_id = None
    THEN [error |-> "no_contract_resolved", db |-> db, contract |-> NoContract]
    ELSE IF _ensure_contract_v2_from_legacy(db, task_input.meta.legacy_contract_id,
                                            performer).contract = NoContract
    THEN [error |-> "no_contract_resolved",
          db |-> _ensure_contract_v2_from_legacy(db, task_input.meta.legacy_contract_id,
                                                 performer).db,
          contract |-> NoContract]
    ELSE [error |-> None,
          db |-> _ensure_contract_v2_from_legacy(db, task_input.meta.legacy_contract_id,
                                                 performer).db,
          contract |-> _ensure_contract_v2_from_legacy(db, task_input.meta.legacy_contract_id,
                                                       performer).contract]

\* [error, db, contract].  With an explicit contract id that exists the code goes
\* on to `query.all()` with `query` unbound.
_resolve_contract(db, task_input, performer, payload) ==
    IF task_input.contract_id # Null
    THEN
        IF task_input.contract_id \notin 1..Len(db.contracts_v2)
        THEN [error |-> "no_contract_resolved", db |-> db, contract |-> NoContract]
        ELSE [error |-> "UnboundLocalError", db |-> db, contract |-> NoContract]
    ELSE
        LET results == contract_query(db, performer, payload)
            prioritized == SelectSeq(results,
                                LAMBDA c : db.contracts_v2[c].performer_id = performer)
            contract == IF Len(results) > 1 /\ prioritized # <<>>
                        THEN db.contracts_v2[prioritized[1]]
                        ELSE db.contracts_v2[results[1]]
        IN
        IF results = <<>>
        THEN resolve_legacy_contract(db, task_input, performer)
        ELSE IF Len(results) > 1 /\ ~payload.autopick_contract
        THEN [error |-> "no_contract_resolved", db |-> db, contract |-> NoContract]
        ELSE [error |-> _ensure_contract_valid(contract, payload), db |-> db,
              contract |-> contract]

\* the ResolvedTask once the contract is resolved
resolved_task(task_input, performer, resolved) ==
    IF resolved.error # None
    THEN [error |-> resolved.error, db |-> resolved.db, task |-> None]
    ELSE IF task_input.hours <= 0
    THEN [error |-> "validation_failed", db |-> resolved.db, task |-> None]
    ELSE [error |-> None, db |-> resolved.db,
          task |-> [jira_id |-> task_input.jira_id, performer |-> performer,
                    contract |-> resolved.contract, hours |-> task_input.hours,
                    project_id |-> task_input.project_id]]

\* [error, db, task]: the ResolvedTask of one task input
_resolve_task(db, task_input, payload) ==
    IF task_input.assignee_id # Null
    THEN
        IF task_input.assignee_id \notin 1..Len(db.individuals_v2)
        THEN [error |-> "not_found", db |-> db, task |-> None]
        ELSE resolved_task(task_input, task_input.assignee_id,
                           _resolve_contract(db, task_input, task_input.assignee_id, payload))
    ELSE resolved_task(task_input, _resolve_performer_from_meta(task_input),
                       _resolve_contract(db, task_input,
                                         _resolve_performer_from_meta(task_input), payload))

\* the loop of _resolve_tasks from task i on, the result of task i being r
RECURSIVE _resolve_tasks(_, _, _, _)
resolve_next(db, payload, i, resolved_tasks, r) ==
    IF r.error # None
    THEN [error |-> r.error, db |-> r.db, tasks |-> resolved_tasks]
    ELSE _resolve_tasks(r.db, payload, i + 1, Append(resolved_tasks, r.task))

\* [error, db, tasks]: the tasks resolved in order, up to the first error
_resolve_tasks(db, payload, i, resolved_tasks) ==
    IF i > Len(payload.tasks)
    THEN [error |-> None, db |-> db, tasks |-> resolved_tasks]
    ELSE resolve_next(db, payload, i, resolved_tasks,
                      _resolve_task(db, payload.tasks[i], payload))

(***************************************************************************)
(* Package Orchestrator                                                    *)
(***************************************************************************)
\* the hashed basis itself stands for its SHA-256: equal exactly when the basis is
_compute_source_hash(payload, resolved_tasks) ==
    [ta_id |-> payload.ta_id,
     period_start |-> payload.period_start, period_end |-> payload.period_end,
     tasks |-> {[jira_id |-> resolved_tasks[i].jira_id,
                 contract_id |-> resolved_tasks[i].contract.id,
                 performer_id |-> resolved_tasks[i].performer,
                 hours |-> resolved_tasks[i].hours,
                 project_id |-> resolved_tasks[i].project_id] : i \in 1..Len(resolved_tasks)},
     include_timesheets |-> payload.include_timesheets,
     include_by_projects |-> payload.include_by_projects,
     autopick_contract |-> payload.autopick_contract]

_generate_package_no(db, ta) ==
    <<ta.number, Cardinality({i \in 1..Len(db.closing_packages) :
                                db.closing_packages[i].ta_id = ta.id}) + 1>>

\* [db, package_id]: the package with this assignment, period and hash, touched
\* when it exists and inserted when it does not
_ensure_package(db, payload, ta, source_hash) ==
    LET existing == LastMatching({i \in 1..Len(db.closing_packages) :
                        /\ db.closing_packages[i].ta_id = ta.id
                        /\ db.closing_packages[i].period_start = payload.period_start
                        /\ db.closing_packages[i].period_end = payload.period_end
                        /\ db.closing_packages[i].source_hash = source_hash})
        package == [id |-> Len(db.closing_packages) + 1, ta_id |-> ta.id,
                    period_start |-> payload.period_start,
                    period_end |-> payload.period_end,
                    package_no |-> _generate_package_no(db, ta),
                    status |-> "draft", source_hash |-> source_hash, touched |-> FALSE]
    IN
    IF existing # Null
    THEN [db |-> [db EXCEPT !.closing_packages[existing].touched = TRUE],
          package_id |-> existing]
    ELSE [db |-> [db EXCEPT !.closing_packages = Append(@, package)],
          package_id |-> package.id]

_detect_performer_type(db, task) ==
    IF task.performer # Null THEN db.individuals_v2[task.performer].type
    ELSE IF task.contract.performer_id # Null
    THEN db.individuals_v2[task.contract.performer_id].type
    ELSE IF task.contract.party_type = "company" THEN "company"
    ELSE "gph"

_project_bucket(payload, task) ==
    IF payload.include_by_projects = "off" THEN Null
    ELSE IF payload.include_by_projects = "force" THEN task.project_id
    ELSE IF task.contract.act_by_projects THEN task.project_id ELSE Null

\* [doc_types, pair_id]; uuid is the fresh value uuid4 gives this call
_doc_types_for(ta, performer_type, contract, uuid) ==
    LET has_ip == ta.has_ip
        ip_separate == contract.ip_transfer_mode = "separate"
        with_vat == contract.vat_mode \in {"vat_10", "vat_20"}
    IN
    IF performer_type = "employee"
    THEN [doc_types |-> <<"SERVICE_ASSIGN">> \o (IF has_ip /\ ip_separate THEN <<"APP">> ELSE <<>>),
          pair_id |-> IF has_ip /\ ip_separate THEN uuid ELSE NoPair]
    ELSE [doc_types |-> <<"AVR">> \o (IF has_ip /\ ip_separate THEN <<"APP">> ELSE <<>>)
                                  \o (IF with_vat THEN <<"INVOICE">> ELSE <<>>),
          pair_id |-> IF has_ip /\ ip_separate THEN uuid ELSE NoPair]

_plan_for_task(db, payload, ta, task, uuid) ==
    LET performer_type == _detect_performer_type(db, task)
        types == _doc_types_for(ta, performer_type, task.contract, uuid)
    IN [contract |-> task.contract,
        performer |-> IF task.performer # Null THEN task.performer
                      ELSE task.contract.performer_id,
        performer_type |-> performer_type,
        project_id |-> _project_bucket(payload, task),
        vat_mode |-> task.contract.vat_mode,
        currency |-> task.contract.currency,
        doc_types |-> types.doc_types,
        pair_id |-> types.pair_id,
        tasks |-> <<>>,
        hours |-> 0]

GroupKey(plan) ==
    <<plan.contract.id, plan.performer, plan.vat_mode, plan.currency, plan.project_id,
      plan.doc_types, plan.pair_id>>

\* group_plans with the task added to the plan of its key, a new plan when
\* the key is new (the dict keeps the keys in the order they first appear)
add_to_group(group_plans, plan, task) ==
    LET same == {g \in 1..Len(group_plans) : GroupKey(group_plans[g]) = GroupKey(plan)} IN
    IF same = {}
    THEN Append(group_plans, [plan EXCEPT !.tasks = <<task.jira_id>>, !.hours = task.hours])
    ELSE [group_plans EXCEPT ![CHOOSE g \in same : TRUE] =
            [@ EXCEPT !.tasks = Append(@, task.jira_id), !.hours = @ + task.hours]]

\* call_no makes the uuid of task i of this call differ from every uuid of
\* another call
RECURSIVE _build_groups(_, _, _, _, _, _, _)
_build_groups(db, payload, ta, resolved_tasks, call_no, i, group_plans) ==
    IF i > Len(resolved_tasks) THEN group_plans
    ELSE _build_groups(db, payload, ta, resolved_tasks, call_no, i + 1,
            add_to_group(group_plans,
                         _plan_for_task(db, payload, ta, resolved_tasks[i],
                                        <<"uuid", call_no, i>>),
                         resolved_tasks[i]))

\* max(version) + 1 over the rows of the REQUEST's ta_id: a request without
\* ta_id compares the column with NULL, which no row satisfies
_next_version(db, payload, contract_id, doc_type, project_id) ==
    LET versions == {db.documents_v2[i].version : i \in
                        {j \in 1..Len(db.documents_v2) :
                            /\ db.documents_v2[j].ta_id = payload.ta_id
                            /\ db.documents_v2[j].contract_id = contract_id
                            /\ db.documents_v2[j].doc_type = doc_type
                            /\ db.documents_v2[j].period_start = payload.period_start
                            /\ db.documents_v2[j].period_end = payload.period_end
                            /\ db.documents_v2[j].project_id = project_id}}
    IN IF versions = {} THEN 1
       ELSE (CHOOSE v \in versions : \A w \in versions : w <= v) + 1

_self_employed_receipt_ok(contract) ==
    contract.meta.npd_receipt_confirmed

\* [error, warnings]: the amounts are left out; a self-employed plan without a
\* receipt adds the warning when the request allows it and raises when not
_finalize_plan(payload, plan, warnings) ==
    IF plan.performer_type = "employee"
    THEN [error |-> None, warnings |-> warnings]
    ELSE IF plan.performer_type = "selfemployed" /\ ~_self_employed_receipt_ok(plan.contract)
    THEN
        IF payload.allow_selfemployed_without_receipt
        THEN [error |-> None,
              warnings |-> Append(warnings, [type |-> "selfemployed_check",
                                             contract_id |-> plan.contract.id])]
        ELSE [error |-> "selfemployed_no_receipt", warnings |-> warnings]
    ELSE [error |-> None, warnings |-> warnings]

\* the second loop of _build_groups: the plans finalized in order, up to the first error
RECURSIVE _finalize_plans(_, _, _, _)
_finalize_plans(payload, group_plans, g, warnings) ==
    IF g > Len(group_plans) THEN [error |-> None, warnings |-> warnings]
    ELSE IF _finalize_plan(payload, group_plans[g], warnings).error # None
    THEN _finalize_plan(payload, group_plans[g], warnings)
    ELSE _finalize_plans(payload, group_plans, g + 1,
                         _finalize_plan(payload, group_plans[g], warnings).warnings)

file_path(document_id) == <<"doc-v2", document_id, "docx">>

\* file_path of a row whose file is not rendered yet
NoFile == <<>>

\* the file at path written again: whole, or cut short by an exception
write_file(on_disk, path, complete) ==
    {f \in on_disk : f.path # path} \cup {[path |-> path, complete |-> complete]}

\* the renderer that raises for no document
Renderer(on_disk) == [files |-> on_disk, fails_at |-> Null, partial |-> FALSE]

\* the renderer of one request: the files on disk, the document whose rendering
\* raises (Null: none does) and whether that leaves a partial file
Renderers(on_disk, documents) ==
    {Renderer(on_disk)}
    \cup {[files |-> on_disk, fails_at |-> Len(documents) + k, partial |-> partial] :
            k \in {1, 2}, partial \in BOOLEAN}

_v2_work_package_key_from_ids(package_id, performer_id) ==
    <<"package", package_id, "performer", performer_id>>

\* the tracker's records of the plan's tasks tagged with the package
tag_tasks(db, package_id, plan) ==
    [db EXCEPT !.task_records =
        [id \in DOMAIN db.task_records |->
            IF \E k \in 1..Len(plan.tasks) : plan.tasks[k] = id
            THEN [work_package_id |-> _v2_work_package_key_from_ids(package_id, plan.performer)]
            ELSE db.task_records[id]]]

\* the DocumentV2 row of one doc type of a plan
new_document(db, payload, ta, package_id, plan, doc_type, path) ==
    [id |-> Len(db.documents_v2) + 1, package_id |-> package_id, ta_id |-> ta.id,
     pair_id |-> IF doc_type \in {"AVR", "APP"} THEN plan.pair_id ELSE NoPair,
     doc_type |-> doc_type, contract_id |-> plan.contract.id,
     performer_id |-> plan.performer, project_id |-> plan.project_id,
     period_start |-> payload.period_start, period_end |-> payload.period_end,
     hours |-> IF doc_type \in {"AVR", "SERVICE_ASSIGN"} THEN plan.hours ELSE Null,
     version |-> _next_version(db, payload, plan.contract.id, doc_type, plan.project_id),
     tasks |-> plan.tasks,
     meta |-> [pair_id |-> plan.pair_id],
     approval |-> "draft",
     file_path |-> path]

\* the row added and flushed, its file_path set once the file is rendered
add_document(db, payload, ta, package_id, plan, doc_type, path) ==
    [db EXCEPT !.documents_v2 =
        Append(@, new_document(db, payload, ta, package_id, plan, doc_type, path))]

add_timesheet(db, payload, doc_type, document_id) ==
    IF payload.include_timesheets /\ doc_type \in {"AVR", "SERVICE_ASSIGN"}
    THEN [db EXCEPT !.timesheets =
            Append(@, [id |-> Len(db.timesheets) + 1, document_id |-> document_id])]
    ELSE db

\* [error, db, files]: the tasks of every plan tagged, then one DocumentV2 row per
\* doc type, each flushed and rendered before the next; an exception of the
\* renderer ends the call
RECURSIVE _persist_documents(_, _, _, _, _, _, _, _)
persist_document(db, disk, payload, ta, package_id, group_plans, g, t) ==
    IF disk.fails_at = Len(db.documents_v2) + 1
    THEN [error |-> "render_exception",
          db |-> add_document(db, payload, ta, package_id, group_plans[g],
                              group_plans[g].doc_types[t], NoFile),
          files |-> IF disk.partial
                    THEN write_file(disk.files, file_path(Len(db.documents_v2) + 1), FALSE)
                    ELSE disk.files]
    ELSE _persist_documents(
            add_timesheet(add_document(db, payload, ta, package_id, group_plans[g],
                                       group_plans[g].doc_types[t],
                                       file_path(Len(db.documents_v2) + 1)),
                          payload, group_plans[g].doc_types[t], Len(db.documents_v2) + 1),
            [disk EXCEPT !.files = write_file(@, file_path(Len(db.documents_v2) + 1), TRUE)],
            payload, ta, package_id, group_plans, g, t + 1)

_persist_documents(db, disk, payload, ta, package_id, group_plans, g, t) ==
    IF g > Len(group_plans) THEN [error |-> None, db |-> db, files |-> disk.files]
    ELSE IF t > Len(group_plans[g].doc_types)
    THEN _persist_documents(db, disk, payload, ta, package_id, group_plans, g + 1, 1)
    ELSE IF t = 1
    THEN persist_document(tag_tasks(db, package_id, group_plans[g]), disk, payload, ta,
                          package_id, group_plans, g, t)
    ELSE persist_document(db, disk, payload, ta, package_id, group_plans, g, t)

\* the builder raised: what the session had flushed by then, the files, the error
Failed(written, on_disk, code) ==
    [error |-> code, db |-> written, files |-> on_disk, package_id |-> Null,
     documents |-> <<>>, warnings |-> <<>>]

\* the response: the package and the ids of the rows this call inserted
Created(db, package_id, persisted, warnings) ==
    [error |-> None, db |-> persisted.db, files |-> persisted.files,
     package_id |-> package_id,
     documents |-> [i \in 1..(Len(persisted.db.documents_v2) - Len(db.documents_v2)) |->
                        Len(db.documents_v2) + i],
     warnings |-> warnings]

\* execute after _persist_documents
execute_persisted(db, package_id, persisted, warnings) ==
    IF persisted.error # None THEN Failed(persisted.db, persisted.files, persisted.error)
    ELSE Created(db, package_id, persisted, warnings)

\* execute from _persist_documents on: the plans are grouped and finalized
execute_finalized(db, disk, payload, ta, ensured, group_plans, finalized) ==
    IF finalized.error # None THEN Failed(ensured.db, disk.files, finalized.error)
    ELSE execute_persisted(db, ensured.package_id,
                           _persist_documents(ensured.db, disk, payload, ta,
                                              ensured.package_id, group_plans, 1, 1),
                           finalized.warnings)

\* execute from the second loop of _build_groups on
execute_grouped(db, disk, payload, ta, ensured, group_plans) ==
    execute_finalized(db, disk, payload, ta, ensured, group_plans,
                      _finalize_plans(payload, group_plans, 1, <<>>))

\* execute from _build_groups on: self.package is ensured
execute_in_package(db, disk, payload, ta, resolved_tasks, ensured) ==
    execute_grouped(db, disk, payload, ta, ensured,
                    _build_groups(ensured.db, payload, ta, resolved_tasks,
                                  Len(db.documents_v2), 1, <<>>))

\* execute from _compute_source_hash on: self.resolved_tasks is resolved
execute_resolved(db, disk, payload, loaded, resolved) ==
    IF resolved.error # None THEN Failed(resolved.db, disk.files, resolved.error)
    ELSE execute_in_package(db, disk, payload, loaded.ta, resolved.tasks,
            _ensure_package(resolved.db, payload, loaded.ta,
                            _compute_source_hash(payload, resolved.tasks)))

\* execute from _resolve_tasks on: self.ta is loaded
execute_loaded(db, disk, payload, loaded) ==
    IF loaded.error # None THEN Failed(loaded.db, disk.files, loaded.error)
    ELSE execute_resolved(db, disk, payload, loaded,
                          _resolve_tasks(loaded.db, payload, 1, <<>>))

\* PackageBuilder.execute: [error, db, files, package_id, documents, warnings], db
\* being the tables as the session has written them
execute(db, disk, payload) ==
    IF _validate_period(payload) # None
    THEN Failed(db, disk.files, _validate_period(payload))
    ELSE execute_loaded(db, disk, payload, _load_tech_assignment(db, payload))

\* a session that commits what was flushed even when the request raised
get_session_commit_on_error(stored, result) == result.db

\* the request's session: committed when the route returns, rolled back when it raises
get_session(stored, result) ==
    IF result.error = None THEN result.db ELSE stored

Database == [tech_assignments |-> tech_assignments,
             closing_packages |-> closing_packages,
             documents_v2 |-> documents_v2,
             individuals_v2 |-> individuals_v2,
             contracts_v2 |-> contracts_v2,
             timesheets |-> timesheets,
             task_records |-> task_records]

\* POST /packages: the session commits what execute wrote, or nothing on an error
create_package(payload, disk) ==
    /\ Len(documents_v2) < MaxDocuments
    /\ LET result == execute(Database, disk, payload) IN
        /\ tech_assignments' = get_session(Database, result).tech_assignments
        /\ closing_packages' = get_session(Database, result).closing_packages
        /\ documents_v2' = get_session(Database, result).documents_v2
        /\ individuals_v2' = get_session(Database, result).individuals_v2
        /\ contracts_v2' = get_session(Database, result).contracts_v2
        /\ timesheets' = get_session(Database, result).timesheets
        /\ task_records' = get_session(Database, result).task_records
        /\ files' = result.files
        /\ package_response' = [payload |-> payload, error |-> result.error,
                                package_id |-> result.package_id,
                                documents |-> result.documents,
                                warnings |-> result.warnings]
    /\ UNCHANGED <<approvalVars, sessionVars, workspaceVars, sharingVars, moneyVars, rendererVars>>

\* the request served with every document rendered
api_create_package(payload) == create_package(payload, Renderer(files))

\* the request served by a renderer that may raise
api_create_package_rendering(payload) ==
    \E disk \in Renderers(files, documents_v2) : create_package(payload, disk)

InitPackages ==
    /\ doc = NewDocument("v2")
    /\ legacy_performer = [user |-> None, default_manager_user |-> None]
    /\ response = NoResponse
    /\ tech_assignments = <<ExistingTechAssignment>>
    /\ closing_packages = <<>>
    /\ documents_v2 = <<>>
    /\ individuals_v2 = IndividualsV2
    /\ contracts_v2 = ContractsV2
    /\ timesheets = <<>>
    /\ task_records = TaskRecords
    /\ files = {}
    /\ package_response = NoPackageResponse
    /\ sessions = NoSessions
    /\ workspace_members = {}
    /\ workspace_invites = <<>>
    /\ utcnow = 0
    /\ workspace_response = NoWorkspaceResponse
    /\ document_share = NoShare("ws-child")
    /\ share_response = NoShareResponse
    /\ group_plan = GroupPlan
    /\ renderer = DocxHtmlRenderer
    /\ feed = NoFeed

NextPackages ==
    \E payload \in Payloads : api_create_package(payload)

SpecPackages == InitPackages /\ [][NextPackages]_vars

\* the requests whose rendering is followed: with timesheets, with an appendix
\* by projects, with a legacy task and its shadow records, refused by the receipt
\* check, refused while resolving
RenderingPayloads ==
    TimesheetPayloads
    \cup {Payload(ta_id, <<1, 2>>, <<Task("J6", 100, 3, Null, 10)>>, "off") :
            ta_id \in {Null, 1}}
    \cup {Payload(ta_id, <<1, 2>>, <<Task("J1", 200, 1, Null, 10)>>, "force") :
            ta_id \in {Null, 1}}
    \cup {Payload(1, <<5, 6>>, <<LegacyTask("J7", 100, Null, "L1")>>, "off"),
          Payload(Null, <<5, 6>>, <<LegacyTask("J7", 100, Null, "L1"),
                                    Task("J3", 100, 1, Null, 10)>>, "off")}

NextRendering ==
    \E payload \in RenderingPayloads : api_create_package_rendering(payload)

SpecRendering == InitPackages /\ [][NextRendering]_vars

(***************************************************************************)
(* Two createPackage requests at the same time.  Each runs PackageBuilder  *)
(* in its own session; the lookups read what is committed, nothing is      *)
(* locked, and closing_packages has no unique constraint, so each commit   *)
(* adds the rows its session inserted.                                     *)
(***************************************************************************)
ConcurrentPayloads ==
    {Payload(ta_id, <<1, 2>>, <<Task("J1", hours, 1, Null, 10)>>, "off") :
        ta_id \in {Null, 1}, hours \in {200, 300}}

EmptyDatabase ==
    [tech_assignments |-> <<>>, closing_packages |-> <<>>, documents_v2 |-> <<>>,
     individuals_v2 |-> <<>>, contracts_v2 |-> <<>>, timesheets |-> <<>>,
     task_records |-> <<>>]

IdlePackageSession ==
    [open |-> FALSE, payload |-> NoPayload, read |-> EmptyDatabase]

\* the id the autoincrement column gives a row the session inserted as `id` after
\* reading `read` rows, when `stored` rows are committed; ids of rows it read stay
autoincrement(id, read, stored) ==
    IF id > Len(read) THEN id + (Len(stored) - Len(read)) ELSE id

inserted(read, written) == SubSeq(written, Len(read) + 1, Len(written))

commit_tech_assignments(stored, read, written) ==
    stored.tech_assignments \o
    [i \in 1..(Len(written.tech_assignments) - Len(read.tech_assignments)) |->
        [inserted(read.tech_assignments, written.tech_assignments)[i] EXCEPT
            !.id = autoincrement(@, read.tech_assignments, stored.tech_assignments)]]

\* the UPDATE of updated_at on a package the session found, and its INSERTs
commit_closing_packages(stored, read, written) ==
    [i \in 1..Len(stored.closing_packages) |->
        IF i <= Len(read.closing_packages)
           /\ written.closing_packages[i].touched # read.closing_packages[i].touched
        THEN [stored.closing_packages[i] EXCEPT !.touched = written.closing_packages[i].touched]
        ELSE stored.closing_packages[i]] \o
    [i \in 1..(Len(written.closing_packages) - Len(read.closing_packages)) |->
        [inserted(read.closing_packages, written.closing_packages)[i] EXCEPT
            !.id = autoincrement(@, read.closing_packages, stored.closing_packages),
            !.ta_id = autoincrement(@, read.tech_assignments, stored.tech_assignments)]]

commit_individuals_v2(stored, read, written) ==
    stored.individuals_v2 \o
    [i \in 1..(Len(written.individuals_v2) - Len(read.individuals_v2)) |->
        [inserted(read.individuals_v2, written.individuals_v2)[i] EXCEPT
            !.id = autoincrement(@, read.individuals_v2, stored.individuals_v2)]]

commit_contracts_v2(stored, read, written) ==
    stored.contracts_v2 \o
    [i \in 1..(Len(written.contracts_v2) - Len(read.contracts_v2)) |->
        [inserted(read.contracts_v2, written.contracts_v2)[i] EXCEPT
            !.id = autoincrement(@, read.contracts_v2, stored.contracts_v2),
            !.performer_id = autoincrement(@, read.individuals_v2, stored.individuals_v2)]]

commit_documents_v2(stored, read, written) ==
    stored.documents_v2 \o
    [i \in 1..(Len(written.documents_v2) - Len(read.documents_v2)) |->
        [inserted(read.documents_v2, written.documents_v2)[i] EXCEPT
            !.id = autoincrement(@, read.documents_v2, stored.documents_v2),
            !.package_id = autoincrement(@, read.closing_packages, stored.closing_packages),
            !.ta_id = autoincrement(@, read.tech_assignments, stored.tech_assignments),
            !.file_path = file_path(autoincrement(
                            inserted(read.documents_v2, written.documents_v2)[i].id,
                            read.documents_v2, stored.documents_v2))]]

commit_timesheets(stored, read, written) ==
    stored.timesheets \o
    [i \in 1..(Len(written.timesheets) - Len(read.timesheets)) |->
        [inserted(read.timesheets, written.timesheets)[i] EXCEPT
            !.id = autoincrement(@, read.timesheets, stored.timesheets),
            !.document_id = autoincrement(@, read.documents_v2, stored.documents_v2)]]

\* the UPDATE of the task records the session tagged
commit_task_records(stored, read, written) ==
    [id \in DOMAIN stored.task_records |->
        IF written.task_records[id] # read.task_records[id]
        THEN [work_package_id |->
                _v2_work_package_key_from_ids(
                    autoincrement(written.task_records[id].work_package_id[2],
                                  read.closing_packages, stored.closing_packages),
                    written.task_records[id].work_package_id[4])]
        ELSE stored.task_records[id]]

\* the files of the rows the session inserted, rendered under the ids the rows got
commit_files(on_disk, stored, read, written) ==
    on_disk \cup
    {[path |-> file_path(autoincrement(
                    inserted(read.documents_v2, written.documents_v2)[i].id,
                    read.documents_v2, stored.documents_v2)),
      complete |-> TRUE] :
        i \in 1..(Len(written.documents_v2) - Len(read.documents_v2))}

\* the request opens its session; its lookups see the rows committed by now
begin_create_package(s, payload) ==
    /\ ~sessions[s].open
    /\ Len(documents_v2) < MaxDocuments
    /\ sessions' = [sessions EXCEPT ![s] =
            [open |-> TRUE, payload |-> payload, read |-> Database]]
    /\ UNCHANGED <<approvalVars, packageVars, workspaceVars, sharingVars, moneyVars, rendererVars>>

\* the builder has run on what it read; the session commits, or rolls back on an error
commit_create_package(s) ==
    /\ sessions[s].open
    /\ LET read == sessions[s].read
           result == execute(read, Renderer(files), sessions[s].payload) IN
        /\ tech_assignments' =
            commit_tech_assignments(Database, read, get_session(read, result))
        /\ closing_packages' =
            commit_closing_packages(Database, read, get_session(read, result))
        /\ documents_v2' =
            commit_documents_v2(Database, read, get_session(read, result))
        /\ individuals_v2' =
            commit_individuals_v2(Database, read, get_session(read, result))
        /\ contracts_v2' =
            commit_contracts_v2(Database, read, get_session(read, result))
        /\ timesheets' =
            commit_timesheets(Database, read, get_session(read, result))
        /\ task_records' =
            commit_task_records(Database, read, get_session(read, result))
        /\ files' = commit_files(files, Database, read, get_session(read, result))
        /\ package_response' =
            [payload |-> sessions[s].payload, error |-> result.error,
             package_id |-> autoincrement(result.package_id, read.closing_packages,
                                          closing_packages),
             documents |-> [i \in 1..Len(result.documents) |->
                                autoincrement(result.documents[i], read.documents_v2,
                                              documents_v2)],
             warnings |-> result.warnings]
    /\ sessions' = [sessions EXCEPT ![s] = IdlePackageSession]
    /\ UNCHANGED <<approvalVars, workspaceVars, sharingVars, moneyVars, rendererVars>>

InitConcurrentPackages ==
    /\ doc = NewDocument("v2")
    /\ legacy_performer = [user |-> None, default_manager_user |-> None]
    /\ response = NoResponse
    /\ tech_assignments = <<ExistingTechAssignment>>
    /\ closing_packages = <<>>
    /\ documents_v2 = <<>>
    /\ individuals_v2 = IndividualsV2
    /\ contracts_v2 = ContractsV2
    /\ timesheets = <<>>
    /\ task_records = TaskRecords
    /\ files = {}
    /\ package_response = NoPackageResponse
    /\ sessions = [s \in Sessions |-> IdlePackageSession]
    /\ workspace_members = {}
    /\ workspace_invites = <<>>
    /\ utcnow = 0
    /\ workspace_response = NoWorkspaceResponse
    /\ document_share = NoShare("ws-child")
    /\ share_response = NoShareResponse
    /\ group_plan = GroupPlan
    /\ renderer = DocxHtmlRenderer
    /\ feed = NoFeed

NextConcurrentPackages ==
    \/ \E s \in Sessions, payload \in ConcurrentPayloads : begin_create_package(s, payload)
    \/ \E s \in Sessions : commit_create_package(s)

SpecConcurrentPackages == InitConcurrentPackages /\ [][NextConcurrentPackages]_vars

(***************************************************************************)
(* Workspace memberships and invites (services/workspaces.py).  Each call  *)
(* runs in the session of one request: what it flushed is committed when   *)
(* it returns and rolled back when it raises.                              *)
(***************************************************************************)
WorkspaceRole == {"viewer", "member", "admin", "owner"}

ROLE_PRIORITY ==
    [role \in WorkspaceRole |->
        CASE role = "viewer" -> 0 [] role = "member" -> 1
          [] role = "admin" -> 2 [] role = "owner" -> 3]

\* value.strip().lower() of the texts the calls are given
strip_lower(value) ==
    CASE value = " Member@Example.com " -> "member@example.com"
      [] value = "Owner " -> "owner"
      [] OTHER -> value

\* an email compared as it was typed
_normalize_email_verbatim(value) == value

_normalize_email(value) == strip_lower(value)

_normalize_workspace_role(value) ==
    IF strip_lower(value) \in WorkspaceRole THEN strip_lower(value) ELSE "member"

normalize_workspace_role(value) == _normalize_workspace_role(value)

_role_priority(value) ==
    IF value = None THEN 0 ELSE ROLE_PRIORITY[normalize_workspace_role(value)]

can_assign_role(actor, target) ==
    IF normalize_workspace_role(target) = "owner" /\ normalize_workspace_role(actor) # "owner"
    THEN FALSE
    ELSE _role_priority(normalize_workspace_role(actor))
            >= _role_priority(normalize_workspace_role(target))

\* the users table, as the workspace calls read it
WorkspaceUsers ==
    {[id |-> "user-1", email |-> "owner@example.com"],
     [id |-> "user-2", email |-> "member@example.com"]}

UserIds == {u.id : u \in WorkspaceUsers}

NoUser == [id |-> None, email |-> None]

get_user_by_email(email) ==
    IF \E u \in WorkspaceUsers : u.email = _normalize_email(email)
    THEN CHOOSE u \in WorkspaceUsers : u.email = _normalize_email(email)
    ELSE NoUser

Workspaces == {"ws-1", "ws-2"}

\* what the calls are given
RoleInputs == {"Owner ", "boss"}

InviteRoleInputs == {"member", "owner"}

EmailInputs == {"member@example.com", " Member@Example.com "}

\* DEFAULT_INVITE_TTL, in steps of the clock
DEFAULT_INVITE_TTL == 1

MaxClock == 2

MaxInvites == 2

NoMembership == [workspace_id |-> None, user_id |-> None, role |-> None]

get_membership(members, workspace_id, user_id) ==
    IF \E m \in members : m.workspace_id = workspace_id /\ m.user_id = user_id
    THEN CHOOSE m \in members : m.workspace_id = workspace_id /\ m.user_id = user_id
    ELSE NoMembership

\* the membership with its role set
with_role(members, membership, role) ==
    (members \ {membership}) \cup {[membership EXCEPT !.role = role]}

ensure_membership(members, user_id, workspace_id, role) ==
    IF get_membership(members, workspace_id, user_id) # NoMembership
    THEN IF role # None
         THEN with_role(members, get_membership(members, workspace_id, user_id),
                        _normalize_workspace_role(role))
         ELSE members
    ELSE members \cup {[workspace_id |-> workspace_id, user_id |-> user_id,
                        role |-> _normalize_workspace_role(role)]}

\* the count taken over the members of every role
count_workspace_members(members, workspace_id, role) ==
    Cardinality({m \in members : m.workspace_id = workspace_id})

count_workspace_role(members, workspace_id, role) ==
    Cardinality({m \in members : /\ m.workspace_id = workspace_id
                                 /\ m.role = normalize_workspace_role(role)})

\* None, or the ValueError raised for the last owner; new_role None when removing
ensure_owner_persistence(members, workspace_id, membership, new_role) ==
    IF normalize_workspace_role(membership.role) # "owner" THEN None
    ELSE IF new_role # None /\ normalize_workspace_role(new_role) = "owner" THEN None
    ELSE IF count_workspace_role(members, workspace_id, "owner") <= 1
    THEN "owner_required"
    ELSE None

\* the call returned or raised
WorkspaceResponse(op, error, invite, reused) ==
    [op |-> op, error |-> error, invite |-> invite, reused |-> reused]

update_membership_role(membership, role) ==
    /\ IF ensure_owner_persistence(workspace_members, membership.workspace_id, membership,
                                   normalize_workspace_role(role)) # None
       THEN /\ workspace_response' =
                WorkspaceResponse("update_membership_role",
                    ensure_owner_persistence(workspace_members, membership.workspace_id,
                                             membership, normalize_workspace_role(role)),
                    Null, FALSE)
            /\ UNCHANGED workspace_members
       ELSE /\ workspace_members' =
                with_role(workspace_members, membership, normalize_workspace_role(role))
            /\ workspace_response' =
                WorkspaceResponse("update_membership_role", None, Null, FALSE)
    /\ UNCHANGED <<workspace_invites, utcnow, approvalVars, packageVars, sessionVars, sharingVars, moneyVars, rendererVars>>

remove_workspace_member(membership) ==
    /\ IF ensure_owner_persistence(workspace_members, membership.workspace_id, membership,
                                   None) # None
       THEN /\ workspace_response' =
                WorkspaceResponse("remove_workspace_member",
                    ensure_owner_persistence(workspace_members, membership.workspace_id,
                                             membership, None),
                    Null, FALSE)
            /\ UNCHANGED workspace_members
       ELSE /\ workspace_members' = workspace_members \ {membership}
            /\ workspace_response' =
                WorkspaceResponse("remove_workspace_member", None, Null, FALSE)
    /\ UNCHANGED <<workspace_invites, utcnow, approvalVars, packageVars, sessionVars, sharingVars, moneyVars, rendererVars>>

\* the id of the pending invite of the email in the workspace, or Null
pending_invite(invites, workspace_id, normalized_email) ==
    IF \E i \in 1..Len(invites) : /\ invites[i].workspace_id = workspace_id
                                  /\ invites[i].email = normalized_email
                                  /\ invites[i].status = "pending"
    THEN CHOOSE i \in 1..Len(invites) : /\ invites[i].workspace_id = workspace_id
                                        /\ invites[i].email = normalized_email
                                        /\ invites[i].status = "pending"
    ELSE Null

\* the checks of create_workspace_invite: None, or the ValueError raised
invite_error(members, workspace_id, normalized_email, target_role, inviter) ==
    IF inviter # None /\ get_membership(members, workspace_id, inviter) = NoMembership
    THEN "inviter_not_member"
    ELSE IF inviter # None
            /\ ~can_assign_role(get_membership(members, workspace_id, inviter).role,
                                target_role)
    THEN "role_not_assignable"
    ELSE IF get_user_by_email(normalized_email) # NoUser
            /\ get_membership(members, workspace_id,
                              get_user_by_email(normalized_email).id) # NoMembership
    THEN "already_member"
    ELSE None

\* the pending invite with its role and expiry set again (inviter_id, which no
\* call reads, is left out of the rows)
refreshed_invite(invite, target_role) ==
    [invite EXCEPT !.role = target_role,
                   !.expires_at = utcnow + DEFAULT_INVITE_TTL]

new_invite(id, workspace_id, normalized_email, target_role) ==
    [id |-> id, workspace_id |-> workspace_id, email |-> normalized_email,
     role |-> target_role, token |-> id, status |-> "pending",
     expires_at |-> utcnow + DEFAULT_INVITE_TTL]

create_workspace_invite(workspace_id, email, role, inviter) ==
    /\ \/ pending_invite(workspace_invites, workspace_id, _normalize_email(email)) # Null
       \/ Len(workspace_invites) < MaxInvites
    /\ IF invite_error(workspace_members, workspace_id, _normalize_email(email),
                       normalize_workspace_role(role), inviter) # None
       THEN /\ workspace_response' =
                WorkspaceResponse("create_workspace_invite",
                    invite_error(workspace_members, workspace_id, _normalize_email(email),
                                 normalize_workspace_role(role), inviter),
                    Null, FALSE)
            /\ UNCHANGED workspace_invites
       ELSE IF pending_invite(workspace_invites, workspace_id, _normalize_email(email)) # Null
       THEN /\ workspace_invites' =
                [workspace_invites EXCEPT
                    ![pending_invite(workspace_invites, workspace_id, _normalize_email(email))] =
                        refreshed_invite(@, normalize_workspace_role(role))]
            /\ workspace_response' =
                WorkspaceResponse("create_workspace_invite", None,
                    pending_invite(workspace_invites, workspace_id, _normalize_email(email)),
                    TRUE)
       ELSE /\ workspace_invites' =
                Append(workspace_invites,
                       new_invite(Len(workspace_invites) + 1, workspace_id,
                                  _normalize_email(email), normalize_workspace_role(role)))
            /\ workspace_response' =
                WorkspaceResponse("create_workspace_invite", None,
                                  Len(workspace_invites) + 1, FALSE)
    /\ UNCHANGED <<workspace_members, utcnow, approvalVars, packageVars, sessionVars, sharingVars, moneyVars, rendererVars>>

\* the checks with the status of the invite left unread
accept_error_any_status(invites, token) ==
    IF token \notin 1..Len(invites) THEN "invite_invalid"
    ELSE IF invites[token].expires_at < utcnow THEN "invite_expired"
    ELSE None

\* the checks of accept_workspace_invite: None, or the ValueError raised
accept_error(invites, token) ==
    IF token \notin 1..Len(invites) THEN "invite_invalid"
    ELSE IF invites[token].status # "pending" THEN "invite_invalid"
    ELSE IF invites[token].expires_at < utcnow THEN "invite_expired"
    ELSE None

\* an expired invite is marked and flushed before the ValueError, which rolls the
\* request's session back
accept_workspace_invite(token, user_id) ==
    /\ IF accept_error(workspace_invites, token) # None
       THEN /\ workspace_response' =
                WorkspaceResponse("accept_workspace_invite",
                                  accept_error(workspace_invites, token), token, FALSE)
            /\ UNCHANGED <<workspace_members, workspace_invites>>
       ELSE /\ workspace_members' =
                ensure_membership(workspace_members, user_id,
                                  workspace_invites[token].workspace_id,
                                  workspace_invites[token].role)
            /\ workspace_invites' =
                [workspace_invites EXCEPT ![token].status = "accepted"]
            /\ workspace_response' =
                WorkspaceResponse("accept_workspace_invite", None, token, FALSE)
    /\ UNCHANGED <<utcnow, approvalVars, packageVars, sessionVars, sharingVars, moneyVars, rendererVars>>

\* revoke_workspace_invite, whatever the status of the invite
revoke_workspace_invite(invite) ==
    /\ workspace_invites' =
        [workspace_invites EXCEPT ![invite].status = "cancelled",
                                  ![invite].expires_at = utcnow]
    /\ workspace_response' = WorkspaceResponse("revoke_workspace_invite", None, invite, FALSE)
    /\ UNCHANGED <<workspace_members, utcnow, approvalVars, packageVars, sessionVars, sharingVars, moneyVars, rendererVars>>

\* time passes between two calls
tick ==
    /\ utcnow < MaxClock
    /\ utcnow' = utcnow + 1
    /\ UNCHANGED <<workspace_members, workspace_invites, workspace_response,
                   approvalVars, packageVars, sessionVars, sharingVars, moneyVars, rendererVars>>

\* two workspaces as create_workspace leaves them, each with its owner
InitWorkspaces ==
    /\ doc = NewDocument("v2")
    /\ legacy_performer = [user |-> None, default_manager_user |-> None]
    /\ response = NoResponse
    /\ tech_assignments = <<>>
    /\ closing_packages = <<>>
    /\ documents_v2 = <<>>
    /\ individuals_v2 = <<>>
    /\ contracts_v2 = <<>>
    /\ timesheets = <<>>
    /\ task_records = <<>>
    /\ files = {}
    /\ package_response = NoPackageResponse
    /\ sessions = NoSessions
    /\ workspace_members =
        {[workspace_id |-> "ws-1", user_id |-> "user-1", role |-> "owner"],
         [workspace_id |-> "ws-2", user_id |-> "user-1", role |-> "owner"]}
    /\ workspace_invites = <<>>
    /\ utcnow = 0
    /\ workspace_response = NoWorkspaceResponse
    /\ document_share = NoShare("ws-child")
    /\ share_response = NoShareResponse
    /\ group_plan = GroupPlan
    /\ renderer = DocxHtmlRenderer
    /\ feed = NoFeed

NextWorkspaces ==
    \/ \E membership \in workspace_members, role \in RoleInputs :
        update_membership_role(membership, role)
    \/ \E membership \in workspace_members : remove_workspace_member(membership)
    \/ \E workspace_id \in Workspaces, email \in EmailInputs, role \in InviteRoleInputs,
          inviter \in UserIds :
        create_workspace_invite(workspace_id, email, role, inviter)
    \/ \E token \in 1..MaxInvites, user_id \in UserIds :
        accept_workspace_invite(token, user_id)
    \/ \E invite \in 1..Len(workspace_invites) : revoke_workspace_invite(invite)
    \/ tick

SpecWorkspaces == InitWorkspaces /\ [][NextWorkspaces]_vars

(***************************************************************************)
(* Properties of the approval workflow, checked under SpecApproval         *)
(***************************************************************************)
\* the statuses the approval table allows each action from
ValidFrom(action) ==
    CASE action = "submit" -> {"draft", "rejected_performer", "rejected_manager"}
      [] action \in {"performer_approve", "performer_reject"} -> {"pending_performer"}
      [] action \in {"manager_approve", "manager_reject"} -> {"pending_manager"}
      [] action = "finalize" -> {"manager_approved"}

\* the edges of the approval graph
Edges ==
    { <<"draft", "pending_performer">>,
      <<"rejected_performer", "pending_performer">>,
      <<"rejected_manager", "pending_manager">>,
      <<"pending_performer", "pending_manager">>,
      <<"pending_performer", "rejected_performer">>,
      <<"pending_manager", "manager_approved">>,
      <<"pending_manager", "rejected_manager">>,
      <<"manager_approved", "final">> }

\* the record whose assignees a transition checks the caller against
AssigneesRead(d) == IF d.kind = "legacy" THEN _hydrate_document_assignees(d) ELSE d

\* C1: a transition whose action is not valid from the document's current status
\* fails and leaves the status unchanged, for every caller, admin and accountant
\* included.
C1_WrongStateFailsForEveryRole ==
    [][\A user \in Users, action \in DocumentApprovalAction, note \in Notes :
        (api_transition_document(user, action, note) /\ doc.status \notin ValidFrom(action))
            => (response'.error # None /\ doc'.status = doc.status)]_vars

\* C4: a successful transition changes the status only along an edge of the
\* approval graph, and no transition changes the status of a final document.
C4_TransitionsFollowGraph ==
    [][\A user \in Users, action \in DocumentApprovalAction, note \in Notes :
        api_transition_document(user, action, note) =>
            /\ (response'.error = None /\ doc'.status # doc.status)
                    => <<doc.status, doc'.status>> \in Edges
            /\ doc.status = "final" => doc'.status = "final"]_vars

\* C5: a transition that raises a guard error leaves the whole approval record
\* (status, timestamps, *_by fields, assignees, timeline) as it was before the
\* call, a submit without the required assignee included.
C5_GuardErrorLeavesRecord ==
    [][(response'.op = "transition" /\ response'.error # None) => doc' = doc]_vars

\* C5 happens: an admin's submit on a final document without performer assignee
\* failed, and finalized_at, which the handler had cleared before raising, is there.
C5_Witness ==
    /\ response = [op |-> "transition", error |-> "performer_missing"]
    /\ doc.status = "final"
    /\ doc.finalized_at = Stamp
    /\ doc.performer_assignee = None

IsPrefix(s, t) == Len(s) <= Len(t) /\ SubSeq(t, 1, Len(s)) = s

\* C6: on a generated (V2) document every step keeps the timeline it found as a
\* prefix of the new one, and a successful transition appends exactly one entry,
\* whose status is the document's new status.
C6_TimelineAppendOnly ==
    [][doc.kind = "v2" =>
        /\ IsPrefix(doc.timeline, doc'.timeline)
        /\ (response'.op = "transition" /\ response'.error = None) =>
                /\ Len(doc'.timeline) = Len(doc.timeline) + 1
                /\ doc'.timeline[Len(doc'.timeline)].status = doc'.status]_vars

\* C6 happens: a V2 document after two successful transitions to different statuses
C6_Witness ==
    /\ doc.kind = "v2"
    /\ response = [op |-> "transition", error |-> None]
    /\ Len(doc.timeline) = 2
    /\ doc.timeline[1].status # doc.timeline[2].status
    /\ doc.timeline[2].status = doc.status

\* C7: performer_approve and performer_reject succeed only for the performer
\* assignee or an admin/accountant, manager_approve and manager_reject only for
\* the manager assignee or an admin/accountant: no step that succeeds or changes
\* the status is such a call by any other caller.
C7_OnlyAssigneeOrAdminDecides ==
    [][(response'.op = "transition" /\ (response'.error = None \/ doc'.status # doc.status)) =>
        \A user \in Users,
           action \in {"performer_approve", "performer_reject",
                       "manager_approve", "manager_reject"} :
            LET privileged == UserRoles(user) \cap {"admin", "accountant"} # {}
                assignee == IF action \in {"performer_approve", "performer_reject"}
                            THEN AssigneesRead(doc).performer_assignee
                            ELSE AssigneesRead(doc).manager_assignee
            IN (~privileged /\ user # assignee) =>
                    \A note \in Notes : ~api_transition_document(user, action, note)]_vars

\* C7 happens: the performer assignee, who is no admin, approved a V2 document
C7_Witness ==
    /\ doc.kind = "v2"
    /\ response = [op |-> "transition", error |-> None]
    /\ doc.status = "pending_manager"
    /\ doc.performer_assignee = "prf"
    /\ doc.timeline # <<>>
    /\ doc.timeline[Len(doc.timeline)].role = "performer"

\* C8: submit succeeds only for an admin, accountant or manager; from draft or
\* rejected_performer it needs a performer assignee and leads to
\* pending_performer, from rejected_manager it needs a manager assignee and leads
\* to pending_manager; without the assignee it fails and the status stays.  Each
\* conjunct says that no step breaking the rule is a submit.
C8_SubmitRule ==
    [][response'.op = "transition" =>
        LET read == AssigneesRead(doc)
            ok == response'.error = None
            Submit(callers) ==
                \E user \in callers, note \in Notes :
                    api_transition_document(user, "submit", note)
            Outsiders ==
                {user \in Users : UserRoles(user) \cap {"admin", "accountant", "manager"} = {}}
        IN
        /\ ok => ~Submit(Outsiders)
        /\ (/\ ok
            /\ doc.status \in {"draft", "rejected_performer"}
            /\ ~(read.performer_assignee # None /\ doc'.status = "pending_performer"))
                => ~Submit(Users)
        /\ (/\ ok
            /\ doc.status = "rejected_manager"
            /\ ~(read.manager_assignee # None /\ doc'.status = "pending_manager"))
                => ~Submit(Users)
        /\ (/\ doc.status \in {"draft", "rejected_performer"}
            /\ read.performer_assignee = None
            /\ (ok \/ doc'.status # doc.status))
                => ~Submit(Users)
        /\ (/\ doc.status = "rejected_manager"
            /\ read.manager_assignee = None
            /\ (ok \/ doc'.status # doc.status))
                => ~Submit(Users)]_vars

\* C8 happens: a V2 document rejected by the manager was submitted again and went
\* back to the manager
C8_Witness ==
    /\ doc.kind = "v2"
    /\ response = [op |-> "transition", error |-> None]
    /\ Len(doc.timeline) = 2
    /\ doc.timeline[1].status = "rejected_manager"
    /\ doc.timeline[2].status = "pending_manager"
    /\ doc.status = "pending_manager"
    /\ doc.manager_assignee # None

\* C9: whatever the caller's role, a manager_approve that succeeds leaves a
\* document with a manager assignee recorded on it.
C9_ManagerApproveNeedsManager ==
    [][\A user \in Users, note \in Notes :
        (api_transition_document(user, "manager_approve", note) /\ response'.error = None)
            => doc'.manager_assignee # None]_vars

\* C10: replacing or clearing the performer assignee of a pending_performer
\* document returns it to draft; replacing or clearing the manager assignee of a
\* pending_manager document that has a performer assignee returns it to
\* pending_performer.
C10_ReassignReverts ==
    [][\A performer_id \in PerformerIds \ {UnknownUser}, manager_id \in ManagerIds :
        api_update_document_assignees(performer_id, manager_id) =>
            /\ (doc.status = "pending_performer" /\ performer_id # doc.performer_assignee)
                    => doc'.status = "draft"
            /\ (/\ doc.status = "pending_manager"
                /\ doc.performer_assignee # None
                /\ performer_id = doc.performer_assignee
                /\ manager_id # doc.manager_assignee)
                    => doc'.status = "pending_performer"]_vars

(***************************************************************************)
(* Properties of createPackage, checked under SpecPackages                 *)
(***************************************************************************)
DocumentsOfPackage(rows, package_id) ==
    {i \in 1..Len(rows) : rows[i].package_id = package_id}

\* C2: a createPackage call that repeats the previous successful call returns
\* the same package id and adds no Document row to that package.
C2_RepeatedCreateAddsNoDocument ==
    [][\A payload \in Payloads :
        (/\ api_create_package(payload)
         /\ package_response.payload = payload
         /\ package_response.error = None
         /\ package_response'.error = None) =>
            /\ package_response'.package_id = package_response.package_id
            /\ Cardinality(DocumentsOfPackage(documents_v2', package_response.package_id))
                = Cardinality(DocumentsOfPackage(documents_v2, package_response.package_id))]_vars

SameVersionKey(a, b) ==
    /\ a.contract_id = b.contract_id
    /\ a.doc_type = b.doc_type
    /\ a.period_start = b.period_start
    /\ a.period_end = b.period_end
    /\ a.project_id = b.project_id

\* C3: every Document a createPackage call persists has version 1 + the largest
\* version among the Documents persisted before it with the same contract,
\* doc_type, period and project (1 when there is none), with or without ta_id in
\* the request, and the rows persisted earlier stay as they were.
C3_VersionIsNextForKey ==
    [][\A payload \in Payloads :
        api_create_package(payload) =>
            /\ IsPrefix(documents_v2, documents_v2')
            /\ \A i \in (Len(documents_v2) + 1)..Len(documents_v2') :
                LET earlier == {documents_v2'[j].version : j \in
                                    {k \in 1..(i - 1) :
                                        SameVersionKey(documents_v2'[k], documents_v2'[i])}}
                IN documents_v2'[i].version =
                    1 + (IF earlier = {} THEN 0
                         ELSE CHOOSE v \in earlier : \A w \in earlier : w <= v)]_vars


(***************************************************************************)
(* Concurrent transitions, checked under SpecConcurrentApproval            *)
(***************************************************************************)
\* C11: of two transitions that both read the document before either commits, the one
\* that commits second sees the first one's committed status: a transition that takes
\* effect was computed from the document as it is stored at that moment, and no
\* committed timeline entry is dropped
C11_LaterTransitionSeesEarlierCommit ==
    [][\A s \in Sessions :
        (sessions[s].open /\ ~sessions'[s].open /\ response'.error = None)
            => /\ sessions[s].read.status = doc.status
               /\ IsPrefix(doc.timeline, doc'.timeline)]_vars

(***************************************************************************)
(* Concurrent package creation, checked under SpecConcurrentPackages       *)
(***************************************************************************)
\* C12: however two identical createPackage requests interleave, closing_packages
\* holds one row per assignment, period and source hash
C12_OnePackagePerSourceHash ==
    \A i, j \in 1..Len(closing_packages) :
        (/\ closing_packages[i].ta_id = closing_packages[j].ta_id
         /\ closing_packages[i].period_start = closing_packages[j].period_start
         /\ closing_packages[i].period_end = closing_packages[j].period_end
         /\ closing_packages[i].source_hash = closing_packages[j].source_hash)
            => i = j

(***************************************************************************)
(* Properties of package generation, checked under SpecPackages            *)
(***************************************************************************)
\* the request has a task of a self-employed performer whose contract carries no
\* confirmed receipt
SelfEmployedWithoutReceipt(payload) ==
    \E i \in 1..Len(payload.tasks) :
        /\ payload.tasks[i].assignee_id \in 1..Len(individuals_v2)
        /\ individuals_v2[payload.tasks[i].assignee_id].type = "selfemployed"
        /\ \A c \in 1..Len(contracts_v2) :
            contracts_v2[c].performer_id = payload.tasks[i].assignee_id
                => ~contracts_v2[c].meta.npd_receipt_confirmed

\* C13: a request with a self-employed performer without a confirmed receipt fails
\* with selfemployed_no_receipt and commits no tech assignment, package or document
\* row unless allow_selfemployed_without_receipt is set; when it is set the request
\* succeeds and returns a selfemployed_check warning
C13_NoReceiptRaisesAndCommitsNothing ==
    [][\A payload \in Payloads :
        (SelfEmployedWithoutReceipt(payload) /\ api_create_package(payload)) =>
            IF payload.allow_selfemployed_without_receipt
            THEN /\ package_response'.error = None
                 /\ \E w \in 1..Len(package_response'.warnings) :
                        package_response'.warnings[w].type = "selfemployed_check"
            ELSE /\ package_response'.error = "selfemployed_no_receipt"
                 /\ UNCHANGED <<tech_assignments, closing_packages, documents_v2,
                                individuals_v2, contracts_v2, timesheets,
                                task_records, files>>]_vars

\* the request without ta_id was refused after its tech assignment and package
\* had been flushed
C13_Witness ==
    /\ package_response.error = "selfemployed_no_receipt"
    /\ package_response.payload.ta_id = Null
    /\ Len(package_response.payload.tasks) = 2

\* C14: package generation is all-or-nothing: a request that fails at any step
\* (resolving, the receipt check, rendering the k-th document) commits no tech
\* assignment, package, document, timesheet, shadow performer or contract row and
\* no task tag, and every committed document row names a file written in full.
\* Checked under SpecRendering.
C14_PackageGenerationIsAllOrNothing ==
    [][/\ package_response'.error # None =>
            UNCHANGED <<tech_assignments, closing_packages, documents_v2, individuals_v2,
                        contracts_v2, timesheets, task_records>>
       /\ \A i \in 1..Len(documents_v2') :
            [path |-> documents_v2'[i].file_path, complete |-> TRUE] \in files']_vars

\* the renderer raised at the second document of a request: the first document's
\* file is on disk in full, the second one's in part, and no row of either is
\* committed
C14_Witness ==
    /\ package_response.error = "render_exception"
    /\ \E f \in files, g \in files :
        /\ f.complete /\ ~g.complete
        /\ \A i \in 1..Len(documents_v2) :
            documents_v2[i].file_path # f.path /\ documents_v2[i].file_path # g.path
    /\ closing_packages = <<>>
    /\ timesheets = <<>>
    /\ \A id \in DOMAIN task_records : task_records[id].work_package_id = NoWorkPackage

\* what _resolve_tasks gives for a request that gets as far as resolving
Resolution(payload) ==
    IF _validate_period(payload) # None \/ _load_tech_assignment(Database, payload).error # None
    THEN [error |-> None, db |-> Database, tasks |-> <<>>]
    ELSE _resolve_tasks(_load_tech_assignment(Database, payload).db, payload, 1, <<>>)

ResolvedTasks(payload) == Resolution(payload).tasks

\* C17: whatever the tables hold and whichever way the contract is found, every
\* resolved task has positive hours and a contract that is active and valid to the
\* end of the period or later
C17_ResolvedTaskHasValidContract ==
    \A payload \in Payloads :
        \A i \in 1..Len(ResolvedTasks(payload)) :
            /\ ResolvedTasks(payload)[i].hours > 0
            /\ ResolvedTasks(payload)[i].contract.status = "active"
            /\ ResolvedTasks(payload)[i].contract.valid_to >= payload.period_end

\* the task names a contract that exists, is active and covers the period
ExplicitContractCoversPeriod(task_input, payload) ==
    /\ task_input.contract_id \in 1..Len(contracts_v2)
    /\ contracts_v2[task_input.contract_id].status = "active"
    /\ contracts_v2[task_input.contract_id].valid_from <= payload.period_start
    /\ contracts_v2[task_input.contract_id].valid_to >= payload.period_end

\* C18: a task with an explicit contract id that exists, is active and covers the
\* period resolves without error to exactly that contract; a contract id that does
\* not exist gives no_contract_resolved
C18_ExplicitContractIsUsed ==
    \A payload \in Payloads :
        \A i \in 1..Len(payload.tasks) :
            /\ (/\ ExplicitContractCoversPeriod(payload.tasks[i], payload)
                /\ payload.tasks[i].assignee_id \in 1..Len(individuals_v2)
                /\ payload.tasks[i].hours > 0)
                => /\ _resolve_task(Database, payload.tasks[i], payload).error = None
                   /\ _resolve_task(Database, payload.tasks[i], payload).task.contract.id
                        = payload.tasks[i].contract_id
            /\ (/\ payload.tasks[i].contract_id # Null
                /\ payload.tasks[i].contract_id \notin 1..Len(contracts_v2)
                /\ payload.tasks[i].assignee_id \in 1..Len(individuals_v2))
                => _resolve_task(Database, payload.tasks[i], payload).error
                        = "no_contract_resolved"

\* the rows the last request inserted
CreatedDocuments ==
    {documents_v2[package_response.documents[i]] : i \in 1..Len(package_response.documents)}

\* the rows the last request inserted for the plan of row d
DocumentsOfPlan(d) ==
    {e \in CreatedDocuments :
        /\ e.contract_id = d.contract_id
        /\ e.performer_id = d.performer_id
        /\ e.project_id = d.project_id
        /\ e.tasks = d.tasks}

\* C15: for an employee's plan under an assignment with IP and a contract with
\* separate IP transfer the request inserts two rows, a SERVICE_ASSIGN and an APP,
\* and both have the same pair_id, which is not null
C15_EmployeeDocumentsArePaired ==
    \A d \in CreatedDocuments :
        (/\ d.doc_type = "SERVICE_ASSIGN"
         /\ individuals_v2[d.performer_id].type = "employee"
         /\ tech_assignments[d.ta_id].has_ip
         /\ contracts_v2[d.contract_id].ip_transfer_mode = "separate")
            => /\ Cardinality(DocumentsOfPlan(d)) = 2
               /\ {e.doc_type : e \in DocumentsOfPlan(d)} = {"SERVICE_ASSIGN", "APP"}
               /\ \A e \in DocumentsOfPlan(d) : e.pair_id # NoPair /\ e.pair_id = d.pair_id

\* the plans _build_groups makes of the request's resolved tasks
GroupPlans(payload) ==
    IF ResolvedTasks(payload) = <<>> THEN <<>>
    ELSE _build_groups(Resolution(payload).db, payload,
                       _load_tech_assignment(Database, payload).ta,
                       ResolvedTasks(payload), Len(documents_v2), 1, <<>>)

\* contract, performer, VAT mode, currency, project bucket and document types
PartitionKey(plan) ==
    <<plan.contract.id, plan.performer, plan.vat_mode, plan.currency, plan.project_id,
      plan.doc_types>>

\* C16: the plans partition the resolved tasks by contract, performer, VAT mode,
\* currency, project bucket and document types: no two plans agree on all six, and
\* every task is in the plan of its own six values
C16_GroupingPartitionsByKey ==
    \A payload \in Payloads :
        /\ \A g, h \in 1..Len(GroupPlans(payload)) :
            PartitionKey(GroupPlans(payload)[g]) = PartitionKey(GroupPlans(payload)[h])
                => g = h
        /\ \A i \in 1..Len(ResolvedTasks(payload)) :
            \E g \in 1..Len(GroupPlans(payload)) :
                /\ \E t \in 1..Len(GroupPlans(payload)[g].tasks) :
                    GroupPlans(payload)[g].tasks[t] = ResolvedTasks(payload)[i].jira_id
                /\ PartitionKey(GroupPlans(payload)[g]) =
                    PartitionKey(_plan_for_task(Resolution(payload).db, payload,
                                    _load_tech_assignment(Database, payload).ta,
                                    ResolvedTasks(payload)[i], NoPair))


(***************************************************************************)
(* Properties of workspace memberships and invites, checked under          *)
(* SpecWorkspaces                                                          *)
(***************************************************************************)
\* the membership is the only one of its workspace with the owner role
OnlyOwner(membership) ==
    /\ membership.role = "owner"
    /\ \A other \in workspace_members :
        (other.workspace_id = membership.workspace_id /\ other.role = "owner")
            => other = membership

\* C19: update_membership_role to a role other than owner and
\* remove_workspace_member raise, and leave the memberships as they were, whenever
\* the membership is the only owner of its workspace
C19_LastOwnerIsKept ==
    [][\A membership \in workspace_members :
        OnlyOwner(membership) =>
            /\ \A role \in RoleInputs :
                (strip_lower(role) # "owner" /\ update_membership_role(membership, role))
                    => (workspace_response'.error # None /\ UNCHANGED workspace_members)
            /\ remove_workspace_member(membership)
                    => (workspace_response'.error # None /\ UNCHANGED workspace_members)]_vars

\* the removal of the only owner of a workspace that has another member was refused
C19_Witness ==
    /\ workspace_response.op = "remove_workspace_member"
    /\ workspace_response.error = "owner_required"
    /\ \E membership \in workspace_members, other \in workspace_members :
        /\ OnlyOwner(membership)
        /\ other.workspace_id = membership.workspace_id
        /\ other # membership

\* the invites of the workspace that are pending for the email
PendingInvites(workspace_id, email) ==
    {i \in 1..Len(workspace_invites) :
        /\ workspace_invites[i].workspace_id = workspace_id
        /\ strip_lower(workspace_invites[i].email) = strip_lower(email)
        /\ workspace_invites[i].status = "pending"}

\* C20: a workspace never has two pending invites for one normalized email, and a
\* create_workspace_invite that returns for an email with a pending invite
\* returns that invite, its role and expiry set again, and adds no row
C20_OnePendingInvitePerEmail ==
    /\ [](\A workspace_id \in Workspaces, email \in EmailInputs :
            Cardinality(PendingInvites(workspace_id, email)) <= 1)
    /\ [][\A workspace_id \in Workspaces, email \in EmailInputs,
            role \in InviteRoleInputs, inviter \in UserIds :
            (/\ workspace_response'.op = "create_workspace_invite"
             /\ workspace_response'.error = None
             /\ PendingInvites(workspace_id, email) # {}
             /\ create_workspace_invite(workspace_id, email, role, inviter))
                => /\ workspace_response'.invite \in PendingInvites(workspace_id, email)
                   /\ Len(workspace_invites') = Len(workspace_invites)
                   /\ workspace_invites'[workspace_response'.invite].id
                        = workspace_invites[workspace_response'.invite].id
                   /\ workspace_invites'[workspace_response'.invite].role
                        = strip_lower(role)
                   /\ workspace_invites'[workspace_response'.invite].expires_at
                        = utcnow + DEFAULT_INVITE_TTL]_vars

\* an invite made at an earlier time was returned again, for a later expiry, while
\* the same email has an invite pending in the other workspace
C20_Witness ==
    /\ workspace_response.op = "create_workspace_invite"
    /\ workspace_response.reused
    /\ workspace_invites[workspace_response.invite].expires_at > 1
    /\ \E i \in 1..Len(workspace_invites) :
        /\ i # workspace_response.invite
        /\ workspace_invites[i].email = workspace_invites[workspace_response.invite].email
        /\ workspace_invites[i].status = "pending"


\* the invite of the token can be accepted now: it is pending and has not expired
Acceptable(token) ==
    /\ token \in 1..Len(workspace_invites)
    /\ workspace_invites[token].status = "pending"
    /\ workspace_invites[token].expires_at >= utcnow

\* C21: accept_workspace_invite on a pending, unexpired invite gives the user a
\* membership of the invite's workspace with the invite's role and marks the invite
\* accepted; an accept of any other invite (accepted before, cancelled, expired,
\* unknown token) raises and leaves the memberships as they were
C21_AcceptOnceWhilePending ==
    [][\A token \in 1..MaxInvites, user_id \in UserIds :
        accept_workspace_invite(token, user_id) =>
            IF Acceptable(token)
            THEN /\ workspace_response'.error = None
                 /\ [workspace_id |-> workspace_invites[token].workspace_id,
                     user_id |-> user_id,
                     role |-> workspace_invites[token].role] \in workspace_members'
                 /\ workspace_invites'[token].status = "accepted"
            ELSE /\ workspace_response'.error # None
                 /\ UNCHANGED workspace_members]_vars

\* an invite that had been accepted was presented again and refused
C21_Witness ==
    /\ workspace_response.op = "accept_workspace_invite"
    /\ workspace_response.error = "invite_invalid"
    /\ workspace_response.invite \in 1..Len(workspace_invites)
    /\ workspace_invites[workspace_response.invite].status = "accepted"
    /\ \E m \in workspace_members :
        /\ m.workspace_id = workspace_invites[workspace_response.invite].workspace_id
        /\ m.role = workspace_invites[workspace_response.invite].role
        /\ m.user_id = "user-2"

\* C30: every workspace made by create_workspace keeps at least one membership
\* with the owner role, whatever calls are made
C30_WorkspaceKeepsAnOwner ==
    \A workspace_id \in Workspaces :
        \E m \in workspace_members : m.workspace_id = workspace_id /\ m.role = "owner"


(***************************************************************************)
(* Properties of the order of approvals, checked under SpecApproval        *)
(***************************************************************************)
\* C27: a document becomes final only from manager_approved, manager_approved only
\* from pending_manager (the manager's approval) and pending_manager only from
\* pending_performer (the performer's approval): both approvals precede final, in
\* that order, after the last submit, and final is never reached straight from a
\* draft, pending or rejected state
C27_BothApprovalsPrecedeFinal ==
    [][/\ (doc'.status = "final" /\ doc.status # "final")
            => doc.status = "manager_approved"
       /\ (doc'.status = "manager_approved" /\ doc.status # "manager_approved")
            => doc.status = "pending_manager"
       /\ (doc'.status = "pending_manager" /\ doc.status # "pending_manager")
            => doc.status = "pending_performer"]_vars

\* C28: a document in pending_performer has a performer assignee and a document
\* in pending_manager or manager_approved has a manager assignee
C28_WaitingDocumentHasItsApprover ==
    /\ doc.status = "pending_performer" => doc.performer_assignee # None
    /\ doc.status \in {"pending_manager", "manager_approved"} => doc.manager_assignee # None


(***************************************************************************)
(* Sharing a legacy document of a child workspace with the parent          *)
(* workspace, and what list_documents shows to each workspace.  Every      *)
(* route runs under get_workspace_context, which puts the active workspace *)
(* and its descendants (the scope) into session.info; the session events   *)
(* of workspace_scoping.py hide every DocumentRecordORM row outside the    *)
(* scope.                                                                  *)
(***************************************************************************)
DocumentWorkspaces == {"ws-parent", "ws-child"}

\* WorkspaceORM.parent_id
WorkspaceParent(workspace_id) ==
    IF workspace_id = "ws-child" THEN "ws-parent" ELSE None

collect_descendant_ids(workspace_id) ==
    {workspace_id} \cup {w \in DocumentWorkspaces : WorkspaceParent(w) = workspace_id}

\* the users who call the share routes
ShareUsers == {"adm", "mgr"}

\* session.get(DocumentRecordORM, document_id) under the workspace filter
get_document_record(d, record, active_workspace_id) ==
    /\ d.kind = "legacy"
    /\ record.workspace_id \in collect_descendant_ids(active_workspace_id)

share_without_status_check(current_status) == TRUE

share_status_ok(current_status) == current_status \in {"manager_approved", "final"}

share_document_with_parent(d, record, active_workspace_id, user) ==
    LET current_status == IF d.status = None THEN "draft" ELSE d.status IN
    IF ~get_document_record(d, record, active_workspace_id)
    THEN [error |-> "not_found", record |-> record]
    ELSE IF active_workspace_id # None /\ record.workspace_id # active_workspace_id
    THEN [error |-> "other_workspace", record |-> record]
    ELSE IF WorkspaceParent(record.workspace_id) = None
    THEN [error |-> "no_parent", record |-> record]
    ELSE IF ~share_status_ok(current_status)
    THEN [error |-> "not_approved", record |-> record]
    ELSE [error |-> None,
          record |-> [record EXCEPT !.shared_with_parent = TRUE,
                                    !.shared_parent_id = WorkspaceParent(record.workspace_id),
                                    !.shared_at = Stamp,
                                    !.shared_by_user_id = user]]

revoke_document_share(d, record, active_workspace_id) ==
    IF ~get_document_record(d, record, active_workspace_id)
    THEN [error |-> "not_found", record |-> record]
    ELSE IF active_workspace_id # None /\ record.workspace_id # active_workspace_id
    THEN [error |-> "other_workspace", record |-> record]
    ELSE [error |-> None,
          record |-> [record EXCEPT !.shared_with_parent = FALSE,
                                    !.shared_parent_id = None,
                                    !.shared_at = None,
                                    !.shared_by_user_id = None]]

list_own_workspace_only(record, active_workspace_id) ==
    record.workspace_id = active_workspace_id

list_filter(record, active_workspace_id) ==
    \/ record.workspace_id = active_workspace_id
    \/ record.shared_with_parent /\ record.shared_parent_id = active_workspace_id

\* the legacy records list_documents returns when called without a user
list_documents(d, record, active_workspace_id) ==
    LET legacy_records ==
            IF get_document_record(d, record, active_workspace_id) THEN {record} ELSE {}
    IN {r \in legacy_records : list_filter(r, active_workspace_id)}

\* POST /documents/{document_id}/share
api_share_document(active_workspace_id, user) ==
    /\ LET result == share_document_with_parent(doc, document_share, active_workspace_id, user) IN
        /\ document_share' = IF result.error = None THEN result.record ELSE document_share
        /\ share_response' = [op |-> "share", error |-> result.error,
                              workspace_id |-> active_workspace_id]
    /\ UNCHANGED <<approvalVars, packageVars, sessionVars, workspaceVars, moneyVars, rendererVars>>

\* DELETE /documents/{document_id}/share
api_revoke_document_share(active_workspace_id) ==
    /\ LET result == revoke_document_share(doc, document_share, active_workspace_id) IN
        /\ document_share' = IF result.error = None THEN result.record ELSE document_share
        /\ share_response' = [op |-> "revoke", error |-> result.error,
                              workspace_id |-> active_workspace_id]
    /\ UNCHANGED <<approvalVars, packageVars, sessionVars, workspaceVars, moneyVars, rendererVars>>

\* the callers and notes of the approval requests followed next to sharing
SharingUsers == {"adm", "mgr", "prf"}

SharingNotes == {"ok"}

InitSharing ==
    /\ doc = NewDocument("legacy")
    /\ legacy_performer = [user |-> "prf", default_manager_user |-> "mgr"]
    /\ response = NoResponse
    /\ tech_assignments = <<>>
    /\ closing_packages = <<>>
    /\ documents_v2 = <<>>
    /\ individuals_v2 = <<>>
    /\ contracts_v2 = <<>>
    /\ timesheets = <<>>
    /\ task_records = <<>>
    /\ files = {}
    /\ package_response = NoPackageResponse
    /\ sessions = NoSessions
    /\ workspace_members = {}
    /\ workspace_invites = <<>>
    /\ utcnow = 0
    /\ workspace_response = NoWorkspaceResponse
    /\ document_share \in {NoShare(workspace_id) : workspace_id \in DocumentWorkspaces}
    /\ share_response = NoShareResponse
    /\ group_plan = GroupPlan
    /\ renderer = DocxHtmlRenderer
    /\ feed = NoFeed

NextSharing ==
    \/ \E user \in SharingUsers, action \in DocumentApprovalAction, note \in SharingNotes :
        api_transition_document(user, action, note)
    \/ \E performer_id \in PerformerIds, manager_id \in ManagerIds :
        api_update_document_assignees(performer_id, manager_id)
    \/ \E active_workspace_id \in DocumentWorkspaces, user \in ShareUsers :
        api_share_document(active_workspace_id, user)
    \/ \E active_workspace_id \in DocumentWorkspaces :
        api_revoke_document_share(active_workspace_id)

SpecSharing == InitSharing /\ [][NextSharing]_vars


Shareable(active_workspace_id) ==
    /\ doc.kind = "legacy"
    /\ document_share.workspace_id = active_workspace_id
    /\ WorkspaceParent(active_workspace_id) # None

\* C22: share_document_with_parent succeeds only when the document is a
\* legacy record of the active workspace, that workspace has a parent and the
\* approval status is manager_approved or final; then the four sharing
\* columns are set.  In every other case, every other status included, the
\* call raises and shared_with_parent, shared_parent_id, shared_at and
\* shared_by_user_id stay as they were.
C22_ShareOnlyWhenApproved ==
    [][\A active_workspace_id \in DocumentWorkspaces, user \in ShareUsers :
        api_share_document(active_workspace_id, user)
            => IF Shareable(active_workspace_id) /\ doc.status \in {"manager_approved", "final"}
               THEN /\ share_response'.error = None
                    /\ document_share' =
                        [workspace_id |-> active_workspace_id, shared_with_parent |-> TRUE,
                         shared_parent_id |-> WorkspaceParent(active_workspace_id),
                         shared_at |-> Stamp, shared_by_user_id |-> user]
               ELSE /\ share_response'.error # None
                    /\ UNCHANGED document_share]_vars

\* a share of a document still waiting for its manager was refused, and a
\* share of an approved one is possible in the same workspace
C22_Witness ==
    /\ share_response.op = "share"
    /\ share_response.error = "not_approved"
    /\ doc.status = "pending_manager"
    /\ ~document_share.shared_with_parent

ListedFor(d, record, active_workspace_id) ==
    record \in list_documents(d, record, active_workspace_id)

ChildDocument == doc.kind = "legacy" /\ document_share.workspace_id = "ws-child"

C29_SharedDocumentIsApproved ==
    document_share.shared_with_parent => doc.status \in {"manager_approved", "final"}


(***************************************************************************)
(* The money of a GroupPlan.  Decimal values are kept as integers: hours   *)
(* in hundredths (the scale _to_decimal quantizes them to), hourly rates   *)
(* in ten-thousandths of a rouble (ROUND_FOUR), contract rates and amounts *)
(* in kopeks (ROUND_TWO).  Hours are positive and rates are not negative,  *)
(* so ROUND_HALF_UP, which rounds a tie away from zero, rounds it up.      *)
(* The receipt check that follows the amounts is _finalize_plan above.     *)
(***************************************************************************)
MaxPlanTasks == 2

TaskHours == {1, 50, 150}

RateValues == {0, 50, 2000, 12345}

NormHours == {Null, 160}

PerformerTypes == {"employee", "gph", "selfemployed", "company"}

VATMode == {"no_vat", "vat_0", "vat_10", "vat_20"}

\* a tie goes down
quantize_half_down(numerator, denominator) ==
    (2 * numerator + denominator - 1) \div (2 * denominator)

\* (numerator / denominator).quantize(unit, rounding=ROUND_HALF_UP), in units
quantize_half_up(numerator, denominator) ==
    (2 * numerator + denominator) \div (2 * denominator)

_resolve_rate_hour(rate_type, rate_value, norm_hours) ==
    IF rate_type = "hour" \/ rate_value = 0
    THEN rate_value * 100
    ELSE LET norm_hours_value ==
                IF norm_hours = Null \/ norm_hours <= 0 THEN 168 ELSE norm_hours
         IN quantize_half_up(rate_value * 100, norm_hours_value)

\* the amounts _finalize_plan assigns
finalize_amounts(plan, rate_hour) ==
    IF plan.performer_type = "employee"
    THEN [plan EXCEPT !.rate_hour = 0, !.amount_wo_vat = 0, !.vat_amount = 0,
                      !.amount_total = 0, !.finalized = TRUE]
    ELSE LET amount_wo_vat == quantize_half_up(plan.hours * rate_hour, 10000)
             vat_amount ==
                IF plan.vat_mode = "vat_10" THEN quantize_half_up(amount_wo_vat * 10, 100)
                ELSE IF plan.vat_mode = "vat_20" THEN quantize_half_up(amount_wo_vat * 20, 100)
                ELSE 0
         IN [plan EXCEPT !.rate_hour = rate_hour,
                         !.amount_wo_vat = amount_wo_vat,
                         !.vat_amount = vat_amount,
                         !.amount_total = quantize_half_up(amount_wo_vat + vat_amount, 1),
                         !.finalized = TRUE]

\* the first loop of _build_groups, for a task of this plan's key
build_group_task(hours) ==
    /\ ~group_plan.finalized
    /\ Len(group_plan.tasks) < MaxPlanTasks
    /\ group_plan' = [group_plan EXCEPT !.tasks = Append(@, hours), !.hours = @ + hours]
    /\ UNCHANGED <<approvalVars, packageVars, sessionVars, workspaceVars, sharingVars,
                   rendererVars>>

\* the second loop of _build_groups, for this plan
finalize_group_plan(rate_type, rate_value, norm_hours) ==
    /\ ~group_plan.finalized
    /\ group_plan.tasks # <<>>
    /\ group_plan' = finalize_amounts(group_plan,
                                      _resolve_rate_hour(rate_type, rate_value, norm_hours))
    /\ UNCHANGED <<approvalVars, packageVars, sessionVars, workspaceVars, sharingVars,
                   rendererVars>>

InitMoney ==
    /\ doc = NewDocument("v2")
    /\ legacy_performer = [user |-> None, default_manager_user |-> None]
    /\ response = NoResponse
    /\ tech_assignments = <<>>
    /\ closing_packages = <<>>
    /\ documents_v2 = <<>>
    /\ individuals_v2 = <<>>
    /\ contracts_v2 = <<>>
    /\ timesheets = <<>>
    /\ task_records = <<>>
    /\ files = {}
    /\ package_response = NoPackageResponse
    /\ sessions = NoSessions
    /\ workspace_members = {}
    /\ workspace_invites = <<>>
    /\ utcnow = 0
    /\ workspace_response = NoWorkspaceResponse
    /\ document_share = NoShare("ws-child")
    /\ share_response = NoShareResponse
    /\ group_plan \in {[GroupPlan EXCEPT !.performer_type = performer_type,
                                         !.vat_mode = vat_mode] :
                            performer_type \in PerformerTypes, vat_mode \in VATMode}
    /\ renderer = DocxHtmlRenderer
    /\ feed = NoFeed

NextMoney ==
    \/ \E hours \in TaskHours : build_group_task(hours)
    \/ \E rate_type \in {"hour", "month"}, rate_value \in RateValues, norm_hours \in NormHours :
        finalize_group_plan(rate_type, rate_value, norm_hours)

SpecMoney == InitMoney /\ [][NextMoney]_vars

RECURSIVE SumHours(_)
SumHours(tasks) ==
    IF tasks = <<>> THEN 0 ELSE Head(tasks) + SumHours(Tail(tasks))

\* k is numerator/denominator rounded to the nearest integer, a half up
IsHalfUpRound(k, numerator, denominator) ==
    /\ 2 * k * denominator - denominator <= 2 * numerator
    /\ 2 * numerator < 2 * k * denominator + denominator

VatPercent(vat_mode) ==
    CASE vat_mode = "vat_10" -> 10
      [] vat_mode = "vat_20" -> 20
      [] OTHER -> 0

InlineTags == {"strong", "b", "em", "i", "u", "ins", "span"}

HeadingTags == {"h1", "h2", "h3", "h4", "h5", "h6"}

VoidTags == {"br"}

TemplateClasses == {"doc-template", "doc-template-preview"}

top(stack) == stack[Len(stack)]

pop(stack) == SubSeq(stack, 1, Len(stack) - 1)

_format_start_tag(tag) == [kind |-> "start", tag |-> tag]

_format_end_tag(tag) == [kind |-> "end", tag |-> tag]

_push_run_attrs(r, bold, italic, underline) ==
    [r EXCEPT !.run_attrs_stack =
        Append(@, [bold |-> top(@).bold \/ bold,
                   italic |-> top(@).italic \/ italic,
                   underline |-> top(@).underline \/ underline])]

_start_paragraph(r, reuse_current) ==
    _push_run_attrs(
        [r EXCEPT !.section_stack =
                    [i \in 1..Len(r.section_stack) |->
                        [r.section_stack[i] EXCEPT !.paragraph_count = @ + 1]],
                  !.paragraphs =
                    IF reuse_current /\ r.current_paragraph # Null THEN @ ELSE @ + 1,
                  !.current_paragraph =
                    IF reuse_current /\ r.current_paragraph # Null THEN @ ELSE r.paragraphs + 1,
                  !._paragraph_style_depth = @ + 1,
                  !._paragraph_reuse_stack = Append(@, reuse_current)],
        FALSE, FALSE, FALSE)

_ensure_paragraph(r) ==
    IF r.current_paragraph = Null
    THEN [r EXCEPT !.paragraphs = @ + 1, !.current_paragraph = r.paragraphs + 1]
    ELSE r

_break_paragraph(r) ==
    [r EXCEPT !._paragraph_reuse_stack = IF @ # <<>> THEN pop(@) ELSE @,
              !.run_attrs_stack =
                IF r._paragraph_style_depth > 0 /\ Len(@) > 1 THEN pop(@) ELSE @,
              !._paragraph_style_depth = IF @ > 0 THEN @ - 1 ELSE @,
              !.current_paragraph =
                IF r._paragraph_reuse_stack # <<>> /\ top(r._paragraph_reuse_stack)
                THEN @ ELSE Null]

_capture_start(r, tag) ==
    [r EXCEPT !.table_stack[Len(r.table_stack)] =
                [@ EXCEPT !.current_row = Append(IF top(r.table_stack).has_row THEN @ ELSE <<>>,
                                                 [tag |-> tag, html |-> <<>>]),
                          !.has_row = TRUE],
              !.capture_stack =
                Append(@, [tag |-> tag, buffer |-> <<_format_start_tag(tag)>>, depth |-> 1])]

_capture_end(r, tag) ==
    LET capture == top(r.capture_stack)
        buffer == Append(capture.buffer, _format_end_tag(tag))
    IN IF capture.depth - 1 <= 0
       THEN [r EXCEPT !.table_stack[Len(r.table_stack)].current_row[
                            Len(top(r.table_stack).current_row)].html = buffer,
                      !.capture_stack = pop(@)]
       ELSE [r EXCEPT !.capture_stack[Len(r.capture_stack)] =
                        [@ EXCEPT !.buffer = buffer, !.depth = @ - 1]]

\* the table goes into the document, each cell through a renderer of its own
_flush_table(r, ctx) ==
    IF ctx.rows = <<>> THEN r
    ELSE LET broken == _break_paragraph(r) IN
         [broken EXCEPT !.section_stack =
            [i \in 1..Len(broken.section_stack) |->
                [broken.section_stack[i] EXCEPT !.table_count = @ + 1]]]

start_block(r, tag, classes) ==
    IF tag = "div" /\ classes \cap TemplateClasses # {}
    THEN r
    ELSE IF tag \in {"p", "div"}
    THEN IF tag = "p" /\ r.list_item_stack # <<>>
         THEN _start_paragraph(
                [r EXCEPT !.current_paragraph = IF @ = Null THEN top(r.list_item_stack) ELSE @],
                TRUE)
         ELSE _start_paragraph(r, FALSE)
    ELSE IF tag \in HeadingTags
    THEN _start_paragraph(r, FALSE)
    ELSE IF tag \in {"strong", "b"} THEN _push_run_attrs(r, TRUE, FALSE, FALSE)
    ELSE IF tag \in {"em", "i"} THEN _push_run_attrs(r, FALSE, TRUE, FALSE)
    ELSE IF tag \in {"u", "ins"} THEN _push_run_attrs(r, FALSE, FALSE, TRUE)
    ELSE IF tag = "span" THEN _push_run_attrs(r, FALSE, FALSE, FALSE)
    ELSE IF tag = "br" THEN _ensure_paragraph(r)
    ELSE IF tag = "ul" THEN [r EXCEPT !.list_stack = Append(@, "bullet")]
    ELSE IF tag = "ol" THEN [r EXCEPT !.list_stack = Append(@, "number")]
    ELSE IF tag = "li"
    THEN [_start_paragraph(r, FALSE) EXCEPT !.list_item_stack = Append(@, r.paragraphs + 1)]
    ELSE IF tag = "table"
    THEN [_break_paragraph(r) EXCEPT
            !.table_stack = Append(@, [rows |-> <<>>, current_row |-> <<>>, has_row |-> FALSE])]
    ELSE IF tag = "tr" /\ r.table_stack # <<>>
    THEN [r EXCEPT !.table_stack[Len(r.table_stack)] =
                    [@ EXCEPT !.current_row = <<>>, !.has_row = TRUE]]
    ELSE r

handle_starttag(r, tag, classes) ==
    IF r.capture_stack # <<>>
    THEN [r EXCEPT !.capture_stack[Len(r.capture_stack)] =
                    [@ EXCEPT !.buffer = Append(@, _format_start_tag(tag)), !.depth = @ + 1]]
    ELSE IF r.table_stack # <<>> /\ tag \in {"td", "th"}
    THEN _capture_start(r, tag)
    ELSE IF tag = "div"
    THEN start_block([r EXCEPT !.section_stack =
                        Append(@, [classes |-> classes, paragraph_count |-> 0,
                                   table_count |-> 0])],
                     tag, classes)
    ELSE start_block(r, tag, classes)

handle_endtag(r, tag) ==
    IF r.capture_stack # <<>>
    THEN _capture_end(r, tag)
    ELSE IF tag \in InlineTags
    THEN [r EXCEPT !.run_attrs_stack = IF Len(@) > 1 THEN pop(@) ELSE @]
    ELSE IF tag \in {"p", "div", "li"} \cup HeadingTags
    THEN [_break_paragraph(r) EXCEPT
            !.list_item_stack = IF tag = "li" /\ @ # <<>> THEN pop(@) ELSE @]
    ELSE IF tag \in {"ul", "ol"}
    THEN [r EXCEPT !.list_stack = IF @ # <<>> THEN pop(@) ELSE @]
    ELSE IF tag = "tr"
    THEN IF r.table_stack # <<>> /\ top(r.table_stack).has_row
         THEN [r EXCEPT !.table_stack[Len(r.table_stack)] =
                        [@ EXCEPT !.rows = Append(@, top(r.table_stack).current_row),
                                  !.current_row = <<>>, !.has_row = FALSE]]
         ELSE r
    ELSE IF tag = "table"
    THEN IF r.table_stack # <<>>
         THEN _flush_table([r EXCEPT !.table_stack = pop(@)], top(r.table_stack))
         ELSE r
    ELSE IF tag = "div"
    THEN [r EXCEPT !.section_stack = IF @ # <<>> THEN pop(@) ELSE @]
    ELSE r

\* render: the parser meets an opening tag
feed_starttag(tag, classes) ==
    /\ renderer' = handle_starttag(renderer, tag, classes)
    /\ feed' = [open |-> IF tag \in VoidTags THEN feed.open ELSE Append(feed.open, tag),
                fed |-> feed.fed + 1]
    /\ UNCHANGED <<approvalVars, packageVars, sessionVars, workspaceVars, sharingVars, moneyVars>>

\* render: the parser meets the closing tag of the innermost open element
feed_endtag ==
    /\ feed.open # <<>>
    /\ renderer' = handle_endtag(renderer, top(feed.open))
    /\ feed' = [feed EXCEPT !.open = pop(@)]
    /\ UNCHANGED <<approvalVars, packageVars, sessionVars, workspaceVars, sharingVars, moneyVars>>

InitRenderer ==
    /\ doc = NewDocument("v2")
    /\ legacy_performer = [user |-> None, default_manager_user |-> None]
    /\ response = NoResponse
    /\ tech_assignments = <<>>
    /\ closing_packages = <<>>
    /\ documents_v2 = <<>>
    /\ individuals_v2 = <<>>
    /\ contracts_v2 = <<>>
    /\ timesheets = <<>>
    /\ task_records = <<>>
    /\ files = {}
    /\ package_response = NoPackageResponse
    /\ sessions = NoSessions
    /\ workspace_members = {}
    /\ workspace_invites = <<>>
    /\ utcnow = 0
    /\ workspace_response = NoWorkspaceResponse
    /\ document_share = NoShare("ws-child")
    /\ share_response = NoShareResponse
    /\ group_plan = GroupPlan
    /\ renderer = DocxHtmlRenderer
    /\ feed = NoFeed

\* fragments of text markup: any nesting of the paragraph, heading, inline
\* and list tags
MaxFlowTags == 4

MaxFlowDepth == 3

FlowElements ==
    {<<tag, {}>> : tag \in {"p", "div", "h1", "h6", "strong", "b", "em", "i", "u",
                             "span", "ul", "ol", "li"}}
        \cup {<<"div", {"doc-template"}>>}

NextRendererFlow ==
    \/ /\ feed.fed < MaxFlowTags
       /\ Len(feed.open) < MaxFlowDepth
       /\ \E element \in FlowElements : feed_starttag(element[1], element[2])
    \/ feed_endtag

SpecRendererFlow == InitRenderer /\ [][NextRendererFlow]_vars

\* fragments with tables: rows in tables, cells in rows, and in a cell
\* paragraphs, line breaks and tables again
MaxTableTags == 7

TableChildren(open) ==
    IF open = <<>> THEN {"table", "p"}
    ELSE IF top(open) = "table" THEN {"tr"}
    ELSE IF top(open) = "tr" THEN {"td", "th"}
    ELSE IF top(open) \in {"td", "th"} THEN {"p", "br", "table"}
    ELSE {"br", "strong"}

NextRendererTables ==
    \/ /\ feed.fed < MaxTableTags
       /\ \E tag \in TableChildren(feed.open) : feed_starttag(tag, {})
    \/ feed_endtag

SpecRendererTables == InitRenderer /\ [][NextRendererTables]_vars

\* C25: the run-format stack is never empty, and once every element of a
\* fragment of paragraph, heading, inline and list tags is closed, the
\* run-format stack is back at its base depth 1 and the list stack and the
\* section stack are empty.
C25_StacksReturnToBase ==
    /\ Len(renderer.run_attrs_stack) >= 1
    /\ feed.open = <<>>
        => /\ Len(renderer.run_attrs_stack) = 1
           /\ renderer.list_stack = <<>>
           /\ renderer.section_stack = <<>>

CapturingCell ==
    IF \E i \in 1..Len(feed.open) : feed.open[i] \in {"td", "th"}
    THEN CHOOSE i \in 1..Len(feed.open) :
            /\ feed.open[i] \in {"td", "th"}
            /\ \A j \in 1..(i - 1) : feed.open[j] \notin {"td", "th"}
    ELSE Null

\* C26: the capture of a table cell ends exactly at the closing tag of the
\* td/th that started it: the closing tags of the elements inside the cell,
\* nested tables and void tags included, leave the capture open, the cell's
\* own closing tag empties the capture stack, and no capture is open while
\* no cell is open.
C26_CaptureEndsWithItsCell ==
    /\ [](CapturingCell = Null => renderer.capture_stack = <<>>)
    /\ [][feed_endtag /\ CapturingCell # Null
            => IF Len(feed.open) = CapturingCell
               THEN renderer'.capture_stack = <<>>
               ELSE renderer'.capture_stack # <<>>]_vars

====
